---- MODULE Spec2Model ----
(***************************************************************************)
(* State-machine model of packages/back-end/src/integrations/              *)
(* SqlIntegration.ts: the result parsers (runUsersQuery,                   *)
(* runMetricValueQuery, runPastExperimentQuery), the impact estimator      *)
(* (getImpactEstimation) and the experiment analysis orchestrator          *)
(* (getExperimentResults).                                                 *)
(*                                                                         *)
(* Texts (the string-typed columns the warehouse returns) are sequences of *)
(* one-character strings, so that parseInt / parseFloat can be modelled    *)
(* character by character.  JavaScript numbers are tagged records:         *)
(*   [t |-> "num", n |-> a, d |-> b]   the number a / b, in lowest terms   *)
(*   [t |-> "nan", ...]                NaN                                 *)
(*   [t |-> "undef", ...]              undefined (Map.get of a missing key)*)
(***************************************************************************)
EXTENDS Integers, Sequences, FiniteSets, TLC

(***************************************************************************)
(* Bounds of the model.                                                    *)
(***************************************************************************)
\* Largest number of metrics handed to getExperimentResults.
MaxMetrics == 2
\* Largest number of rows of one result set; for getExperimentResults, of all
\* the result sets of the call together.
MaxRows == 2

(***************************************************************************)
(* JavaScript values.                                                      *)
(***************************************************************************)
RECURSIVE Gcd(_, _)
Gcd(a, b) == IF b = 0 THEN a ELSE Gcd(b, a % b)

Abs(a) == IF a < 0 THEN -a ELSE a

\* The number n / d (d > 0) in lowest terms, so that equal numbers are equal
\* records.
Rat(n, d) ==
    LET g == Gcd(Abs(n), d)
    IN  [t |-> "num", n |-> n \div g, d |-> d \div g]

Num(n) == [t |-> "num", n |-> n, d |-> 1]
NaN == [t |-> "nan", n |-> 0, d |-> 1]
Undefined == [t |-> "undef", n |-> 0, d |-> 1]

IsNum(x) == x.t = "num"
IsNaN(x) == x.t = "nan"

\* ToNumber(x): undefined becomes NaN.
ToNumber(x) == IF x.t = "undef" THEN NaN ELSE x

\* x < y and x >= y of JavaScript: false as soon as an operand is NaN.
JsLess(x, y) ==
    /\ IsNum(ToNumber(x))
    /\ IsNum(ToNumber(y))
    /\ x.n * y.d < y.n * x.d

JsGreaterEq(x, y) ==
    /\ IsNum(ToNumber(x))
    /\ IsNum(ToNumber(y))
    /\ x.n * y.d >= y.n * x.d

\* x * y of JavaScript.
JsMul(x, y) ==
    IF IsNum(ToNumber(x)) /\ IsNum(ToNumber(y))
    THEN Rat(x.n * y.n, x.d * y.d)
    ELSE NaN

\* x / k of JavaScript, for a whole number k > 0.
JsDiv(x, k) ==
    IF IsNum(ToNumber(x)) THEN Rat(x.n, x.d * k) ELSE NaN

\* ToBoolean(x) for these values: undefined, NaN and 0 are falsy.
Truthy(x) == IsNum(x) /\ x.n # 0

\* Faulty variant of OrZero: the "|| 0" is left out.
OrZero_Missing(x) == x

\* x || 0
OrZero(x) == IF Truthy(x) THEN x ELSE Num(0)

(***************************************************************************)
(* Texts and the global functions parseInt and parseFloat (ECMAScript      *)
(* 18.2.5 and 18.2.4).  The texts of the model hold no exponent marker and *)
(* no "Infinity", so parseFloat's grammar reduces to sign, digits, dot,    *)
(* digits.                                                                 *)
(***************************************************************************)
DecDigits == <<"0", "1", "2", "3", "4", "5", "6", "7", "8", "9">>
HexDigits == DecDigits \o <<"a", "b", "c", "d", "e", "f">>
WhiteSpace == {" "}

IsDigit(c, radix) ==
    \E i \in 1..radix : HexDigits[i] = c

DigitVal(c) == (CHOOSE i \in 1..16 : HexDigits[i] = c) - 1

RECURSIVE TrimStart(_)
TrimStart(s) ==
    IF s # <<>> /\ Head(s) \in WhiteSpace THEN TrimStart(Tail(s)) ELSE s

RECURSIVE DigitPrefix(_, _)
\* The longest prefix of s made of digits of the radix.
DigitPrefix(s, radix) ==
    IF s # <<>> /\ IsDigit(Head(s), radix)
    THEN <<Head(s)>> \o DigitPrefix(Tail(s), radix)
    ELSE <<>>

RECURSIVE DigitsValue(_, _)
DigitsValue(z, radix) ==
    IF z = <<>> THEN 0
    ELSE DigitsValue(SubSeq(z, 1, Len(z) - 1), radix) * radix + DigitVal(z[Len(z)])

HasSign(s) == s # <<>> /\ Head(s) \in {"+", "-"}
SignOf(s) == IF s # <<>> /\ Head(s) = "-" THEN -1 ELSE 1
DropSign(s) == IF HasSign(s) THEN Tail(s) ELSE s

HasHexPrefix(s) == Len(s) >= 2 /\ s[1] = "0" /\ s[2] \in {"x", "X"}

\* parseInt(s) with no radix argument.
parseInt(s) ==
    LET t == TrimStart(s)
        u == DropSign(t)
        radix == IF HasHexPrefix(u) THEN 16 ELSE 10
        w == IF HasHexPrefix(u) THEN SubSeq(u, 3, Len(u)) ELSE u
        z == DigitPrefix(w, radix)
    IN  IF z = <<>> THEN NaN ELSE Num(SignOf(t) * DigitsValue(z, radix))

\* parseFloat(s).
parseFloat(s) ==
    LET t == TrimStart(s)
        u == DropSign(t)
        ip == DigitPrefix(u, 10)
        rest == SubSeq(u, Len(ip) + 1, Len(u))
        fp == IF rest # <<>> /\ Head(rest) = "."
              THEN DigitPrefix(Tail(rest), 10) ELSE <<>>
    IN  IF ip = <<>> /\ fp = <<>> THEN NaN
        ELSE Rat(SignOf(t) * DigitsValue(ip \o fp, 10), 10 ^ Len(fp))

RECURSIVE NatToText(_)
NatToText(n) ==
    IF n < 10 THEN <<DecDigits[n + 1]>>
    ELSE NatToText(n \div 10) \o <<DecDigits[(n % 10) + 1]>>

\* ToString(x) of a whole number, NaN or undefined: the property key under
\* which obj[x] reads and writes.
ToPropertyKey(x) ==
    CASE x.t = "nan" -> <<"N", "a", "N">>
      [] x.t = "undef" -> <<"u", "n", "d", "e", "f", "i", "n", "e", "d">>
      [] OTHER -> IF x.n < 0 THEN <<"-">> \o NatToText(-x.n) ELSE NatToText(x.n)

(***************************************************************************)
(* Inputs: the experiment, the metrics and what the warehouse may return.  *)
(***************************************************************************)
T(c) == <<c>>

\* Metric ids, in the order of the metrics argument.
MetricIds == <<"m1", "m2", "m3", "m4">>

\* experiment.variations (the keys), in declaration order.
VariationLists == { <<T("0"), T("1")>>, <<T("x"), T("0")>> }

\* settings.experiments.variationFormat with the experiment's variations.
\* Under "index" the keys are not read.
ExperimentConfigs ==
    { <<"index", <<T("0"), T("1")>>>> }
    \cup { <<"key", keys>> : keys \in VariationLists }

\* Values of the variation column: in range, above the range, below it,
\* and not a number at all.
InRangeTexts == { T("0"), T("1") }
AboveRangeText == T("2")
BelowRangeText == <<"-", "1">>
MalformedText == T("x")
VariationTexts == InRangeTexts \cup {AboveRangeText, BelowRangeText, MalformedText}

DimensionValues == {"All", "mobile"}

\* Values of the numeric columns: parsable and not.
GoodStats == [count |-> T("5"), mean |-> <<"1", ".", "5">>, stddev |-> <<".", "5">>]
BadStats == [count |-> T("x"), mean |-> <<>>, stddev |-> T("-")]
GoodUsers == T("7")
BadUsers == T("x")

MetricRow(v, d, s) ==
    [variation |-> v, dimension |-> d, count |-> s.count, mean |-> s.mean,
     stddev |-> s.stddev]

UsersRow(v, d, u) == [variation |-> v, dimension |-> d, users |-> u]

\* The rows a metric query may return: rows for two variations and two
\* dimension values, one of them with unparsable numbers, and one row for
\* each kind of unexpected variation.
MetricRows ==
    { MetricRow(T("0"), "All", GoodStats),
      MetricRow(T("1"), "All", BadStats),
      MetricRow(T("0"), "mobile", GoodStats),
      MetricRow(AboveRangeText, "All", GoodStats),
      MetricRow(BelowRangeText, "All", GoodStats),
      MetricRow(MalformedText, "mobile", GoodStats) }

\* The rows the users query may return, likewise.
UsersRows ==
    { UsersRow(T("0"), "All", GoodUsers),
      UsersRow(T("1"), "All", BadUsers),
      UsersRow(T("0"), "mobile", GoodUsers),
      UsersRow(AboveRangeText, "All", GoodUsers),
      UsersRow(BelowRangeText, "All", GoodUsers),
      UsersRow(MalformedText, "mobile", GoodUsers) }

\* Values of a numeric column handed to the parsers.
NumericTexts ==
    { T("7"), T("0"), T("x"), <<>>, <<"-", "3">>, <<"4", "x">>, <<" ", "1", "2">>,
      <<"1", ".", "5">> }

\* Values of the date column: "" stands for an absent (falsy) date.
DateTexts == {"", "2021-03-01"}

UsersQueryRows == { [date |-> d, users |-> u] : d \in DateTexts, u \in NumericTexts }

\* The columns of a row besides date, count, mean and stddev, in key order.
P50 == <<"p", "5", "0">>
P99 == <<"p", "9", "9">>
ExtraColumns ==
    { <<>>,
      << [name |-> P50, value |-> T("3")] >>,
      << [name |-> P50, value |-> T("x")], [name |-> P99, value |-> T("9")] >>,
      << [name |-> <<"f", "o", "o">>, value |-> T("1")] >> }

\* Every text the warehouse returns in a numeric or variation column.
ColumnTexts ==
    VariationTexts \cup NumericTexts
    \cup { GoodUsers, BadUsers }
    \cup UNION { {st.count, st.mean, st.stddev} : st \in {GoodStats, BadStats} }
    \cup UNION { {x[i].value : i \in 1..Len(x)} : x \in ExtraColumns }

\* parseInt and parseFloat on the texts of the model, tabulated once.
IntOfText == [t \in ColumnTexts |-> parseInt(t)]
FloatOfText == [t \in ColumnTexts |-> parseFloat(t)]
ParseInt(s) == IntOfText[s]
ParseFloat(s) == FloatOfText[s]

\* The sequences over S of length at most n.
SeqsUpTo(S, n) == UNION { [1..k -> S] : k \in 0..n }

(***************************************************************************)
(* Query texts.  The composed SQL is opaque here: a query text is named by *)
(* the composer that built it and the metric it was built for.             *)
(***************************************************************************)
getExperimentMetricSql(m) == <<"getExperimentMetricSql", m>>
getExperimentUsersSql == <<"getExperimentUsersSql", "users">>

\* sqlFormatter.format(q): the pretty-printed text of q.
Format(q) == <<"formatted">> \o q

RECURSIVE JoinQueries(_)
\* qs.join(";\n\n") for formatted texts qs: the pieces and the separators.
JoinQueries(qs) ==
    IF qs = <<>> THEN <<>>
    ELSE IF Len(qs) = 1 THEN <<qs[1]>>
    ELSE <<qs[1], <<";\n\n">>>> \o JoinQueries(Tail(qs))

\* query.map((q) => sqlFormatter.format(q)).join(";\n\n") + ";"
AuditString(qs) ==
    JoinQueries([i \in 1..Len(qs) |-> Format(qs[i])]) \o << <<";">> >>

\* The failure with which the execution capability rejects a query.
QueryError(sql) == <<"error">> \o sql

(***************************************************************************)
(* this.settings: objects, and the merge of the constructor.               *)
(***************************************************************************)
\* What a property that is absent, or present and undefined, reads as.
Unset == "(undefined)"

\* An object without properties; also what null and undefined spread to.
NoObject == <<>>

\* obj[f] and obj?.[f]
Get(obj, f) == IF f \in DOMAIN obj THEN obj[f] ELSE Unset

\* A string that is truthy.
IsSet(v) == v \notin {Unset, ""}

\* a || b
OrElse(a, b) == IF IsSet(a) THEN a ELSE b

\* { ...defaults, ...obj }: every own property of obj, whatever it holds,
\* replaces the default of that name.
Spread(defaults, obj) == obj @@ defaults

\* settings[s] of the settings handed to the constructor.
Section(raw, s) == IF s \in DOMAIN raw THEN raw[s] ELSE NoObject

DefaultSettings ==
    [default |-> [timestampColumn |-> "received_at", userIdColumn |-> "user_id"],
     experiments |-> [experimentIdColumn |-> "experiment_id",
                      table |-> "experiment_viewed",
                      variationColumn |-> "variation_id",
                      variationFormat |-> "index"],
     users |-> [table |-> "users"],
     pageviews |-> [table |-> "pages", urlColumn |-> "path"],
     identifies |-> [table |-> "identifies"]]

Sections == DOMAIN DefaultSettings

\* this.settings = { default: {...}, experiments: {...}, ... }
constructor(raw) ==
    [s \in Sections |-> Spread(DefaultSettings[s], Section(raw, s))]

(***************************************************************************)
(* State.                                                                  *)
(***************************************************************************)
\* Half hours in a day: instants are whole numbers of half hours.
HalfHoursPerDay == 48

VARIABLES
    op,              \* the method of the integration the caller invoked
    pc,              \* where that call stands
    variationFormat, \* settings.experiments.variationFormat
    variations,      \* experiment.variations (keys)
    metrics,         \* the metrics argument (ids)
    query,           \* getExperimentResults: the local array query
    calls,           \* the texts handed to runQuery, in call order
    branch,          \* per issued query: "pending", "fulfilled", "rejected"
    delivered,       \* per issued query: the rows the warehouse returned
    dimensionMap,    \* getExperimentResults: the local Map dimensionMap
    result,          \* what the caller got: nothing yet, a value or a failure
    settings,        \* this.settings, as the constructor left it
    params,          \* the arguments of a query composer
    warehouse,       \* the tables a composed query is run against
    clock            \* what new Date() reads, in half hours

vars == <<op, pc, variationFormat, variations, metrics, query, calls, branch,
          delivered, dimensionMap, result, settings, params, warehouse, clock>>

\* What no method writes once the call has begun.
inputs == <<settings, params, warehouse, clock>>

NoResult == [status |-> "none"]
Fulfilled(v) == [status |-> "fulfilled", value |-> v]
Rejected(e) == [status |-> "rejected", error |-> e]

\* Rows delivered so far, over all queries of the call.
RECURSIVE RowCount(_, _)
RowCount(d, n) == IF n = 0 THEN 0 ELSE Len(d[n]) + RowCount(d, n - 1)
RowsLeft == MaxRows - RowCount(delivered, Len(delivered))

Pending(b) == b \in 1..Len(branch) /\ branch[b] = "pending"

(***************************************************************************)
(* getExperimentResults: the row merge.                                    *)
(***************************************************************************)
\* variationKeyMap.get(text): Map.set keeps the last index of a repeated key.
VariationKeyMapGet(keys, text) ==
    IF \E i \in 1..Len(keys) : keys[i] = text
    THEN Num((CHOOSE i \in 1..Len(keys) :
                 /\ keys[i] = text
                 /\ \A j \in 1..Len(keys) : keys[j] = text => j <= i) - 1)
    ELSE Undefined

\* const varIndex = variationFormat === "key" ? variationKeyMap.get(v) : parseInt(v)
ResolveVariation(format, keys, text) ==
    IF format = "key" THEN VariationKeyMapGet(keys, text) ELSE ParseInt(text)

\* Faulty variant of UnexpectedVariation: the upper bound is not checked.
UnexpectedVariation_NoUpperBound(varIndex, keys) ==
    JsLess(varIndex, Num(0))

\* if (varIndex < 0 || varIndex >= experiment.variations.length) return;
UnexpectedVariation(varIndex, keys) ==
    \/ JsLess(varIndex, Num(0))
    \/ JsGreaterEq(varIndex, Num(Len(keys)))

\* Position of key in the Map (0 when absent).
MapIndex(map, key) ==
    IF \E i \in 1..Len(map) : map[i].dimension = key
    THEN CHOOSE i \in 1..Len(map) : map[i].dimension = key
    ELSE 0

NewEntry(variation) == [variation |-> variation, users |-> Num(0), metrics |-> <<>>]

\* getDimensionData(key, variation), as the Map it leaves behind: the bucket
\* of key is created at the end of the Map when missing, and so is the entry
\* under property variation of the bucket.
getDimensionData(map, key, variation) ==
    LET m1 == IF MapIndex(map, key) = 0
              THEN Append(map, [dimension |-> key, variations |-> <<>>])
              ELSE map
        i == MapIndex(m1, key)
        obj == m1[i].variations
        p == ToPropertyKey(variation)
    IN  IF p \in DOMAIN obj THEN m1
        ELSE [m1 EXCEPT ![i].variations = (p :> NewEntry(variation)) @@ obj]

MetricSummary(m, row) ==
    [metric |-> m,
     count |-> OrZero(ParseInt(row.count)),
     mean |-> OrZero(ParseFloat(row.mean)),
     stddev |-> OrZero(ParseFloat(row.stddev))]

\* The body of rows.forEach of a metric query, for one row.
MergeMetricRow(map, format, keys, m, row) ==
    LET varIndex == ResolveVariation(format, keys, row.variation)
        m1 == getDimensionData(map, row.dimension, varIndex)
        i == MapIndex(m1, row.dimension)
        p == ToPropertyKey(varIndex)
    IN  IF UnexpectedVariation(varIndex, keys) THEN map
        ELSE [m1 EXCEPT ![i].variations[p].metrics = Append(@, MetricSummary(m, row))]

\* The body of rows.forEach of the users query, for one row.
MergeUsersRow(map, format, keys, row) ==
    LET varIndex == ResolveVariation(format, keys, row.variation)
        m1 == getDimensionData(map, row.dimension, varIndex)
        i == MapIndex(m1, row.dimension)
        p == ToPropertyKey(varIndex)
    IN  IF UnexpectedVariation(varIndex, keys) THEN map
        ELSE [m1 EXCEPT ![i].variations[p].users = OrZero(ParseInt(row.users))]

RECURSIVE MergeMetricRows(_, _, _, _, _)
MergeMetricRows(map, format, keys, m, rows) ==
    IF rows = <<>> THEN map
    ELSE MergeMetricRows(MergeMetricRow(map, format, keys, m, Head(rows)),
                         format, keys, m, Tail(rows))

RECURSIVE MergeUsersRows(_, _, _, _)
MergeUsersRows(map, format, keys, rows) ==
    IF rows = <<>> THEN map
    ELSE MergeUsersRows(MergeUsersRow(map, format, keys, Head(rows)),
                        format, keys, Tail(rows))

\* dimensionMap.forEach((variations, k) => results.results.push(...))
ResultList(map) == map

(***************************************************************************)
(* getExperimentResults: the orchestration.  The synchronous part of the   *)
(* call (metrics.map, promises.push, Promise.all) runs to completion       *)
(* before any continuation after an await: a query resolves or rejects     *)
(* only once pc has left "issuing".                                        *)
(***************************************************************************)
InitCall(o) ==
    /\ op = o
    /\ pc = "issuing"
    /\ query = <<>>
    /\ calls = <<>>
    /\ branch = <<>>
    /\ delivered = <<>>
    /\ dimensionMap = <<>>
    /\ result = NoResult
    /\ clock = 2 * HalfHoursPerDay

InitExperimentResults ==
    /\ InitCall("getExperimentResults")
    /\ \E c \in ExperimentConfigs :
         /\ variationFormat = c[1]
         /\ variations = c[2]
    /\ \E n \in 0..MaxMetrics : metrics = SubSeq(MetricIds, 1, n)
    /\ settings = constructor([experiments |-> [variationFormat |-> variationFormat]])
    /\ params = NoObject
    /\ warehouse = NoObject

\* this.runQuery(sql) is called: one more query in flight.
RunQuery(sql) ==
    /\ calls' = Append(calls, sql)
    /\ branch' = Append(branch, "pending")
    /\ delivered' = Append(delivered, <<>>)

\* One callback of metrics.map, up to its await: compose, record, run.
IssueMetricQuery ==
    /\ op = "getExperimentResults"
    /\ pc = "issuing"
    /\ Len(calls) < Len(metrics)
    /\ LET sql == getExperimentMetricSql(metrics[Len(calls) + 1])
       IN  /\ query' = Append(query, sql)
           /\ RunQuery(sql)
    /\ UNCHANGED <<inputs, op, pc, variationFormat, variations, metrics, dimensionMap, result>>

\* Faulty variant of IssueUsersQuery: the users query is run but its text is
\* not pushed to the array query.
IssueUsersQuery_NoPush ==
    /\ op = "getExperimentResults"
    /\ pc = "issuing"
    /\ Len(calls) = Len(metrics)
    /\ RunQuery(getExperimentUsersSql)
    /\ pc' = "awaiting"
    /\ UNCHANGED <<inputs, op, variationFormat, variations, metrics, query, dimensionMap, result>>

\* The users branch up to its await, then await Promise.all(promises).
IssueUsersQuery ==
    /\ op = "getExperimentResults"
    /\ pc = "issuing"
    /\ Len(calls) = Len(metrics)
    /\ query' = Append(query, getExperimentUsersSql)
    /\ RunQuery(getExperimentUsersSql)
    /\ pc' = "awaiting"
    /\ UNCHANGED <<inputs, op, variationFormat, variations, metrics, dimensionMap, result>>

\* A metric query resolves with rows: the rest of its callback merges them.
\* The callback runs whether or not the call has already failed.
ResolveMetricQuery ==
    /\ op = "getExperimentResults"
    /\ pc # "issuing"
    /\ \E b \in 1..Len(metrics) :
         /\ Pending(b)
         /\ \E rows \in SeqsUpTo(MetricRows, RowsLeft) :
              /\ delivered' = [delivered EXCEPT ![b] = rows]
              /\ dimensionMap' = MergeMetricRows(dimensionMap, variationFormat,
                                                 variations, metrics[b], rows)
         /\ branch' = [branch EXCEPT ![b] = "fulfilled"]
    /\ UNCHANGED <<inputs, op, pc, variationFormat, variations, metrics, query, calls, result>>

\* The users query resolves with rows.
ResolveUsersQuery ==
    /\ op = "getExperimentResults"
    /\ pc # "issuing"
    /\ LET b == Len(metrics) + 1
       IN  /\ Pending(b)
           /\ \E rows \in SeqsUpTo(UsersRows, RowsLeft) :
                /\ delivered' = [delivered EXCEPT ![b] = rows]
                /\ dimensionMap' = MergeUsersRows(dimensionMap, variationFormat,
                                                  variations, rows)
           /\ branch' = [branch EXCEPT ![b] = "fulfilled"]
    /\ UNCHANGED <<inputs, op, pc, variationFormat, variations, metrics, query, calls, result>>

\* Faulty variant of RejectQuery: a rejected query is settled like an empty
\* result set (Promise.allSettled) and the call goes on.
RejectQuery_Settled ==
    /\ op \in {"getExperimentResults", "getImpactEstimation"}
    /\ pc # "issuing"
    /\ \E b \in 1..Len(branch) :
         /\ Pending(b)
         /\ branch' = [branch EXCEPT ![b] = "rejected"]
    /\ UNCHANGED <<inputs, op, pc, variationFormat, variations, metrics, query, calls,
                   delivered, dimensionMap, result>>

\* The execution capability rejects a query: its branch rejects, Promise.all
\* rejects with the first rejection and the await throws it to the caller.
RejectQuery ==
    /\ op \in {"getExperimentResults", "getImpactEstimation"}
    /\ pc # "issuing"
    /\ \E b \in 1..Len(branch) :
         /\ Pending(b)
         /\ branch' = [branch EXCEPT ![b] = "rejected"]
         /\ IF pc = "awaiting"
            THEN /\ pc' = "failed"
                 /\ result' = Rejected(QueryError(calls[b]))
            ELSE UNCHANGED <<pc, result>>
    /\ UNCHANGED <<inputs, op, variationFormat, variations, metrics, query, calls,
                   delivered, dimensionMap>>

\* Every branch is fulfilled: Promise.all resolves and the result is built.
ReturnResults ==
    /\ op = "getExperimentResults"
    /\ pc = "awaiting"
    /\ \A b \in 1..Len(branch) : branch[b] = "fulfilled"
    /\ pc' = "returned"
    /\ result' = Fulfilled([results |-> ResultList(dimensionMap),
                            query |-> AuditString(query)])
    /\ UNCHANGED <<inputs, op, variationFormat, variations, metrics, query, calls, branch,
                   delivered, dimensionMap>>

(***************************************************************************)
(* runUsersQuery, runMetricValueQuery, runPastExperimentQuery: one query,  *)
(* then the rows are turned into a typed result.                           *)
(***************************************************************************)
\* The query text the caller hands to a run...Query method.
CallerQuery == <<"query">>

MetricValueRows ==
    { [date |-> d, count |-> s.count, mean |-> s.mean, stddev |-> s.stddev,
       percentiles |-> x] :
        d \in DateTexts, s \in {GoodStats, BadStats}, x \in ExtraColumns }

PastExperimentRows ==
    { [experiment_id |-> "exp", variation_id |-> v, start_date |-> "2021-03-01",
       end_date |-> "2021-03-09", users |-> u] :
        v \in {"0", "1"}, u \in {T("7"), T("x"), <<"4", "x">>} }

\* new Date(text): the date the text denotes.
NewDate(text) == <<"Date", text>>

\* p.replace(/^p/, "")
StripLeadingP(name) ==
    IF name # <<>> /\ Head(name) = "p" THEN Tail(name) ELSE name

\* The body of rows.forEach in runUsersQuery, for one row.  ret.dates is
\* created by the first dated row: the empty sequence stands for its absence.
UsersQueryRow(ret, row) ==
    IF row.date # ""
    THEN [ret EXCEPT !.dates = Append(@, [date |-> row.date,
                                          users |-> OrZero(ParseInt(row.users))])]
    ELSE [ret EXCEPT !.users = OrZero(ParseInt(row.users))]

RECURSIVE UsersQueryRet(_, _)
UsersQueryRet(ret, rows) ==
    IF rows = <<>> THEN ret
    ELSE UsersQueryRet(UsersQueryRow(ret, Head(rows)), Tail(rows))

RECURSIVE SetPercentiles(_, _)
\* Object.keys(percentiles).forEach(...): ret.percentiles as a function of
\* its keys; the empty function stands for its absence.
SetPercentiles(pct, cols) ==
    IF cols = <<>> THEN pct
    ELSE LET k == StripLeadingP(Head(cols).name)
             v == OrZero(ParseInt(Head(cols).value))
         IN  SetPercentiles((k :> v) @@ pct, Tail(cols))

\* A parser that writes every row into the overall summary, dated or not.
MetricValueRow_DateIgnored(ret, row) ==
    LET r == [ret EXCEPT !.count = OrZero(ParseInt(row.count)),
                         !.mean = OrZero(ParseFloat(row.mean)),
                         !.stddev = OrZero(ParseFloat(row.stddev)),
                         !.percentiles = SetPercentiles(@, row.percentiles)]
    IN  IF row.date # ""
        THEN [r EXCEPT !.dates = Append(@, [date |-> row.date,
                                            count |-> OrZero(ParseInt(row.count)),
                                            mean |-> OrZero(ParseFloat(row.mean)),
                                            stddev |-> OrZero(ParseFloat(row.stddev))])]
        ELSE r

\* The body of rows.forEach in runMetricValueQuery, for one row.
MetricValueRow(ret, row) ==
    IF row.date # ""
    THEN [ret EXCEPT !.dates = Append(@, [date |-> row.date,
                                          count |-> OrZero(ParseInt(row.count)),
                                          mean |-> OrZero(ParseFloat(row.mean)),
                                          stddev |-> OrZero(ParseFloat(row.stddev))])]
    ELSE [ret EXCEPT !.count = OrZero(ParseInt(row.count)),
                     !.mean = OrZero(ParseFloat(row.mean)),
                     !.stddev = OrZero(ParseFloat(row.stddev)),
                     !.percentiles = SetPercentiles(@, row.percentiles)]

RECURSIVE MetricValueRet(_, _)
MetricValueRet(ret, rows) ==
    IF rows = <<>> THEN ret
    ELSE MetricValueRet(MetricValueRow(ret, Head(rows)), Tail(rows))

\* The callback of rows.map in runPastExperimentQuery.
PastExperiment(r) ==
    [users |-> ParseInt(r.users),
     end_date |-> NewDate(r.end_date),
     start_date |-> NewDate(r.start_date),
     experiment_id |-> r.experiment_id,
     variation_id |-> r.variation_id]

ParserOps == {"runUsersQuery", "runMetricValueQuery", "runPastExperimentQuery"}

InitParser ==
    /\ \E o \in ParserOps : InitCall(o)
    /\ variationFormat = "index"
    /\ variations = <<>>
    /\ metrics = <<>>
    /\ settings = constructor(NoObject)
    /\ params = NoObject
    /\ warehouse = NoObject

\* const rows = await this.runQuery(query), up to the await.
IssueParserQuery ==
    /\ op \in ParserOps
    /\ pc = "issuing"
    /\ RunQuery(CallerQuery)
    /\ pc' = "awaiting"
    /\ UNCHANGED <<inputs, op, variationFormat, variations, metrics, query, dimensionMap, result>>

ResolveUsers ==
    /\ op = "runUsersQuery"
    /\ pc = "awaiting"
    /\ \E rows \in SeqsUpTo(UsersQueryRows, RowsLeft) :
         /\ delivered' = [delivered EXCEPT ![1] = rows]
         /\ result' = Fulfilled(UsersQueryRet([users |-> Num(0), dates |-> <<>>], rows))
    /\ branch' = [branch EXCEPT ![1] = "fulfilled"]
    /\ pc' = "returned"
    /\ UNCHANGED <<inputs, op, variationFormat, variations, metrics, query, calls, dimensionMap>>

ResolveMetricValue ==
    /\ op = "runMetricValueQuery"
    /\ pc = "awaiting"
    /\ \E rows \in SeqsUpTo(MetricValueRows, RowsLeft) :
         /\ delivered' = [delivered EXCEPT ![1] = rows]
         /\ result' = Fulfilled(MetricValueRet(
                          [count |-> Num(0), mean |-> Num(0), stddev |-> Num(0),
                           dates |-> <<>>, percentiles |-> <<>>], rows))
    /\ branch' = [branch EXCEPT ![1] = "fulfilled"]
    /\ pc' = "returned"
    /\ UNCHANGED <<inputs, op, variationFormat, variations, metrics, query, calls, dimensionMap>>

ResolvePastExperiment ==
    /\ op = "runPastExperimentQuery"
    /\ pc = "awaiting"
    /\ \E rows \in SeqsUpTo(PastExperimentRows, RowsLeft) :
         /\ delivered' = [delivered EXCEPT ![1] = rows]
         /\ result' = Fulfilled([experiments |->
                                    [i \in 1..Len(rows) |-> PastExperiment(rows[i])]])
    /\ branch' = [branch EXCEPT ![1] = "fulfilled"]
    /\ pc' = "returned"
    /\ UNCHANGED <<inputs, op, variationFormat, variations, metrics, query, calls, dimensionMap>>

\* The execution capability rejects: the await throws it to the caller.
RejectParserQuery ==
    /\ op \in ParserOps
    /\ pc = "awaiting"
    /\ branch' = [branch EXCEPT ![1] = "rejected"]
    /\ pc' = "failed"
    /\ result' = Rejected(QueryError(calls[1]))
    /\ UNCHANGED <<inputs, op, variationFormat, variations, metrics, query, calls,
                   delivered, dimensionMap>>

(***************************************************************************)
(* getImpactEstimation: three queries run concurrently, then one result.   *)
(***************************************************************************)
numDays == 30

\* getUsersQuery / getMetricValueQuery for the three settings of the call.
usersSql == <<"getUsersQuery", "Traffic - Selected Pages and Segment">>
metricSql == <<"getMetricValueQuery", "Metric Value - Entire Site">>
valueSql == <<"getMetricValueQuery", "Metric Value - Selected Pages and Segment">>

ImpactUsersRows == { [users |-> u] : u \in {GoodUsers, BadUsers} }
ImpactMetricRows == { [count |-> s.count, mean |-> s.mean] : s \in {GoodStats, BadStats} }

\* [usersSql, metricSql, valueSql].map((sql) => sqlFormatter.format(sql))
\*     .join(";\n\n") + ";"
ImpactAuditString == AuditString(<<usersSql, metricSql, valueSql>>)

\* users && metricTotal && value && users[0] && metricTotal[0] && value[0]
\* st[b] = "null" stands for a null or undefined result set.
AllHaveRows(st, d) ==
    \A b \in 1..3 : st[b] # "null" /\ d[b] # <<>>

\* Faulty variant of ImpactEstimation: each field degrades to 0 on its own
\* result set only.
ImpactEstimation_PerField(st, d) ==
    LET Has(b) == st[b] # "null" /\ d[b] # <<>>
        Total(b) == IF Has(b)
                    THEN JsDiv(OrZero(JsMul(ParseInt(d[b][1].count),
                                            ParseFloat(d[b][1].mean))), numDays)
                    ELSE Num(0)
    IN  [query |-> ImpactAuditString,
         users |-> IF Has(1) THEN JsDiv(OrZero(ParseInt(d[1][1].users)), numDays)
                   ELSE Num(0),
         value |-> Total(3),
         metricTotal |-> Total(2)]

\* The value getImpactEstimation returns for the three result sets.
ImpactEstimation(st, d) ==
    IF AllHaveRows(st, d)
    THEN [query |-> ImpactAuditString,
          users |-> JsDiv(OrZero(ParseInt(d[1][1].users)), numDays),
          value |-> JsDiv(OrZero(JsMul(ParseInt(d[3][1].count),
                                       ParseFloat(d[3][1].mean))), numDays),
          metricTotal |-> JsDiv(OrZero(JsMul(ParseInt(d[2][1].count),
                                             ParseFloat(d[2][1].mean))), numDays)]
    ELSE [query |-> ImpactAuditString,
          users |-> Num(0),
          value |-> Num(0),
          metricTotal |-> Num(0)]

InitImpactEstimation ==
    /\ InitCall("getImpactEstimation")
    /\ variationFormat = "index"
    /\ variations = <<>>
    /\ metrics = <<>>
    /\ settings = constructor(NoObject)
    /\ params = NoObject
    /\ warehouse = NoObject

\* Promise.all([this.runQuery(usersSql), this.runQuery(metricSql),
\*              this.runQuery(valueSql)]), up to the await.
IssueImpactQueries ==
    /\ op = "getImpactEstimation"
    /\ pc = "issuing"
    /\ calls' = <<usersSql, metricSql, valueSql>>
    /\ branch' = <<"pending", "pending", "pending">>
    /\ delivered' = <<<<>>, <<>>, <<>>>>
    /\ pc' = "awaiting"
    /\ UNCHANGED <<inputs, op, variationFormat, variations, metrics, query, dimensionMap, result>>

\* One of the three queries resolves: with rows, or with no result set.
ResolveImpactQuery ==
    /\ op = "getImpactEstimation"
    /\ pc # "issuing"
    /\ \E b \in 1..Len(branch) :
         /\ Pending(b)
         /\ \/ /\ branch' = [branch EXCEPT ![b] = "null"]
               /\ UNCHANGED delivered
            \/ /\ branch' = [branch EXCEPT ![b] = "fulfilled"]
               /\ \E rows \in SeqsUpTo(IF b = 1 THEN ImpactUsersRows
                                       ELSE ImpactMetricRows, MaxRows) :
                    delivered' = [delivered EXCEPT ![b] = rows]
    /\ UNCHANGED <<inputs, op, pc, variationFormat, variations, metrics, query, calls,
                   dimensionMap, result>>

\* All three resolved: the estimation is returned.
ReturnImpactEstimation ==
    /\ op = "getImpactEstimation"
    /\ pc = "awaiting"
    /\ \A b \in 1..Len(branch) : branch[b] \in {"fulfilled", "null"}
    /\ pc' = "returned"
    /\ result' = Fulfilled(ImpactEstimation(branch, delivered))
    /\ UNCHANGED <<inputs, op, variationFormat, variations, metrics, query, calls, branch,
                   delivered, dimensionMap>>

Init ==
    \/ InitExperimentResults
    \/ InitParser
    \/ InitImpactEstimation

Next ==
    \/ IssueMetricQuery
    \/ IssueUsersQuery
    \/ ResolveMetricQuery
    \/ ResolveUsersQuery
    \/ RejectQuery
    \/ ReturnResults
    \/ IssueParserQuery
    \/ ResolveUsers
    \/ ResolveMetricValue
    \/ ResolvePastExperiment
    \/ RejectParserQuery
    \/ IssueImpactQueries
    \/ ResolveImpactQuery
    \/ ReturnImpactEstimation

Spec == Init /\ [][Next]_vars

(***************************************************************************)
(* The column lookups.                                                     *)
(***************************************************************************)
\* A metric argument of null: it has no property to read.
NoMetric == NoObject

\* A lookup that asks the default section before the requested one.
getUserIdColumn_DefaultFirst(metric, section) ==
    OrElse(Get(metric, "userIdColumn"),
           OrElse(Get(settings["default"], "userIdColumn"),
                  OrElse(Get(settings[section], "userIdColumn"), "user_id")))

getUserIdColumn(metric, section) ==
    OrElse(Get(metric, "userIdColumn"),
           OrElse(Get(settings[section], "userIdColumn"),
                  OrElse(Get(settings["default"], "userIdColumn"), "user_id")))

getAnonymousIdColumn(metric, section) ==
    OrElse(Get(metric, "anonymousIdColumn"),
           OrElse(Get(settings[section], "anonymousIdColumn"),
                  OrElse(Get(settings["default"], "anonymousIdColumn"),
                         "anonymous_id")))

getTimestampColumn(metric, section) ==
    OrElse(Get(metric, "timestampColumn"),
           OrElse(Get(settings[section], "timestampColumn"),
                  OrElse(Get(settings["default"], "timestampColumn"),
                         "received_at")))

getVariationColumn ==
    OrElse(Get(settings["experiments"], "variationColumn"), "variation_id")

(***************************************************************************)
(* Composed SQL.  A fragment is kept as its parse: a record per SELECT     *)
(* with its select list, FROM, JOINs and WHERE conjuncts; an expression is *)
(* a record telling its kind.                                              *)
(***************************************************************************)
\* alias.name, or name alone when alias is "".
Col(alias, name) == [kind |-> "column", alias |-> alias, name |-> name]

\* Text spliced into the query as it stands.
Literal(text) == [kind |-> "literal", text |-> text]

\* '${text}': a string literal of SQL.
Quoted(text) == [kind |-> "quoted", text |-> text]

\* ${n} of a number.
Number(n) == [kind |-> "number", value |-> n]

\* fn(args)
Call(fn, args) == [kind |-> "call", fn |-> fn, args |-> args]

\* An expression given as pieces of text.
Pieces(tokens) == [kind |-> "pieces", tokens |-> tokens]

\* expr as name, in a select list.
As(expr, name) == [expr |-> expr, as |-> name]

getFullTableName(table) == table

\* '${date.toISOString().substr(0, 19).replace("T", " ")}': the instant to
\* the second; instants are counted in half hours here, so none is lost.
toTimestamp(date) == [kind |-> "timestamp", at |-> date]

\* ${col} + INTERVAL '${days} days'
addDateInterval(col, days) ==
    [kind |-> "interval", sign |-> "+", arg |-> col, amount |-> days, unit |-> "days"]

\* ${col} - INTERVAL '30 minutes'
subtractHalfHour(col) ==
    [kind |-> "interval", sign |-> "-", arg |-> col, amount |-> 30, unit |-> "minutes"]

dateTrunc(col) == Call("date_trunc", <<Literal("'day'"), col>>)

dateDiff(startCol, endCol) == Call("datediff", <<Literal("day"), startCol, endCol>>)

(***************************************************************************)
(* The fragments of the query composer.                                    *)
(***************************************************************************)
\* An identifies join that reuses the alias of the primary table.
getIdentifiesJoinSql_PrimaryAlias(column, userId) ==
    LET identifiesColumn == IF userId THEN getUserIdColumn(NoMetric, "identifies")
                            ELSE getAnonymousIdColumn(NoMetric, "identifies")
    IN  [table |-> getFullTableName(OrElse(Get(settings["identifies"], "table"),
                                           "identifies")),
         alias |-> "m",
         on |-> <<[left |-> Col("m", identifiesColumn), operator |-> "=",
                   right |-> column]>>]

\* JOIN ${table} i ON (i.${identifiesColumn} = ${column})
getIdentifiesJoinSql(column, userId) ==
    LET identifiesColumn == IF userId THEN getUserIdColumn(NoMetric, "identifies")
                            ELSE getAnonymousIdColumn(NoMetric, "identifies")
    IN  [table |-> getFullTableName(OrElse(Get(settings["identifies"], "table"),
                                           "identifies")),
         alias |-> "i",
         on |-> <<[left |-> Col("i", identifiesColumn), operator |-> "=",
                   right |-> column]>>]

\* The marker a custom column expression carries where the alias goes.
AliasMarker == "{alias}"

\* metric.column is kept as pieces of text, the marker a piece of its own;
\* no piece at all is the empty or absent column.
getMetricColumn(metric, alias) ==
    IF metric.type = "duration"
          /\ \E i \in 1..Len(metric.column) : metric.column[i] = AliasMarker
    THEN Pieces([i \in 1..Len(metric.column) |->
                    IF metric.column[i] = AliasMarker THEN alias ELSE metric.column[i]])
    ELSE Pieces(<<alias, ".">> \o metric.column)

getRawMetricSqlValue(metric, alias) ==
    CASE metric.type = "count" ->
             IF metric.column # <<>> THEN getMetricColumn(metric, alias)
             ELSE Literal("1")
      [] metric.type = "duration" -> getMetricColumn(metric, alias)
      [] metric.type = "revenue" -> getMetricColumn(metric, alias)
      [] OTHER -> Literal("1")

\* A capValue that never clamps.
capValue_Unclamped(cap, value) == value

capValue(cap, value) ==
    IF cap = 0 THEN value ELSE Call("LEAST", <<Number(cap), value>>)

\* An aggregate that counts the events of a binomial metric.
getAggregateMetricSqlValue_BinomialCounted(metric, col) ==
    CASE metric.type = "count" ->
             capValue(metric.cap,
                      IF metric.column # <<>> THEN Call("COUNT DISTINCT", <<col>>)
                      ELSE Call("COUNT", <<Literal("*")>>))
      [] metric.type = "duration" -> capValue(metric.cap, Call("MAX", <<col>>))
      [] metric.type = "revenue" -> capValue(metric.cap, Call("MAX", <<col>>))
      [] OTHER -> Call("COUNT", <<Literal("*")>>)

getAggregateMetricSqlValue(metric, col) ==
    CASE metric.type = "count" ->
             capValue(metric.cap,
                      IF metric.column # <<>> THEN Call("COUNT DISTINCT", <<col>>)
                      ELSE Call("COUNT", <<Literal("*")>>))
      [] metric.type = "duration" -> capValue(metric.cap, Call("MAX", <<col>>))
      [] metric.type = "revenue" -> capValue(metric.cap, Call("MAX", <<col>>))
      [] OTHER -> Literal("1")

\* `m.${c.column} ${c.operator} '${c.value}'`
MetricCondition(c) ==
    [left |-> Col("m", c.column), operator |-> c.operator, right |-> Quoted(c.value)]

getMetricCTE(metric, conversionWindowDays, userId) ==
    LET needUser == userId /\ metric.userIdType = "anonymous"
        needAnonymous == ~userId /\ metric.userIdType = "user"
        userIdCol ==
            IF needUser \/ needAnonymous THEN Col("i", "user_id")
            ELSE Col("m", IF userId THEN getUserIdColumn(metric, "default")
                          ELSE getAnonymousIdColumn(metric, "default"))
        join ==
            CASE needUser ->
                     <<getIdentifiesJoinSql(
                           Col("m", getAnonymousIdColumn(metric, "default")), FALSE)>>
              [] needAnonymous ->
                     <<getIdentifiesJoinSql(
                           Col("m", getUserIdColumn(metric, "default")), TRUE)>>
              [] OTHER -> <<>>
        timestampCol == Col("m", getTimestampColumn(metric, "default"))
    IN  [comment |-> <<"Metric", metric.name>>,
         select |-> <<As(userIdCol, "user_id"),
                      As(getRawMetricSqlValue(metric, "m"), "value"),
                      As(timestampCol, "actual_start"),
                      As(addDateInterval(timestampCol, conversionWindowDays),
                         "conversion_end"),
                      As(subtractHalfHour(timestampCol), "session_start")>>,
         from |-> [table |-> getFullTableName(metric.table), alias |-> "m"],
         join |-> join,
         where |-> [i \in 1..Len(metric.conditions) |->
                       MetricCondition(metric.conditions[i])]]

\* this.settings?.experiments?.table || "experiment_viewed"
ExperimentsTable ==
    getFullTableName(OrElse(Get(settings["experiments"], "table"), "experiment_viewed"))

\* this.settings?.experiments?.experimentIdColumn || "experiment_id"
ExperimentIdColumn ==
    OrElse(Get(settings["experiments"], "experimentIdColumn"), "experiment_id")

getExperimentCTE(experiment, phase, userId) ==
    LET needUser == userId /\ Get(experiment, "userIdType") = "anonymous"
        needAnonymous == ~userId /\ Get(experiment, "userIdType") = "user"
        userIdCol ==
            IF needUser \/ needAnonymous THEN Col("i", "user_id")
            ELSE Col("", IF userId THEN getUserIdColumn(NoMetric, "experiments")
                         ELSE getAnonymousIdColumn(NoMetric, "experiments"))
        join ==
            CASE needUser ->
                     <<getIdentifiesJoinSql(
                           Col("m", getAnonymousIdColumn(NoMetric, "experiments")),
                           FALSE)>>
              [] needAnonymous ->
                     <<getIdentifiesJoinSql(
                           Col("m", getUserIdColumn(NoMetric, "experiments")), TRUE)>>
              [] OTHER -> <<>>
        timestampCol == Col("e", getTimestampColumn(NoMetric, "experiments"))
    IN  [comment |-> <<"Viewed Experiment">>,
         select |-> <<As(userIdCol, "user_id"),
                      As(Col("e", getVariationColumn), "variation"),
                      As(timestampCol, "actual_start"),
                      As(addDateInterval(timestampCol, experiment.conversionWindowDays),
                         "conversion_end"),
                      As(subtractHalfHour(timestampCol), "session_start")>>,
         from |-> [table |-> ExperimentsTable, alias |-> "e"],
         join |-> join,
         where |->
             <<[left |-> Col("e", ExperimentIdColumn), operator |-> "=",
                right |-> Quoted(experiment.trackingKey)],
               [left |-> timestampCol, operator |-> ">=",
                right |-> toTimestamp(phase.dateStarted)]>>
             \o (IF "dateEnded" \in DOMAIN phase
                 THEN <<[left |-> timestampCol, operator |-> "<=",
                         right |-> toTimestamp(phase.dateEnded)]>>
                 ELSE <<>>)]

\* ${col} ~ '${regex}'
regexMatch(col, regex) == [left |-> col, operator |-> "~", right |-> Quoted(regex)]

\* The instant with its time of day set to 0:00.
dateOnly(orig) == (orig \div HalfHoursPerDay) * HalfHoursPerDay

getSegmentCTE(sql, name, userId) ==
    IF ~userId
    THEN [comment |-> <<"Segment", name>>,
          select |-> <<As(Col("i", "user_id"), "user_id"), As(Col("s", "date"), "date")>>,
          from |-> [subquery |-> sql, alias |-> "s"],
          join |-> <<getIdentifiesJoinSql(Col("s", "user_id"), TRUE)>>]
    ELSE [comment |-> <<"Segment", name>>, subquery |-> sql]

getPageUsersCTE(p, userId) ==
    LET timestampCol == Col("", getTimestampColumn(NoMetric, "pageviews"))
        userIdCol == Col("", IF userId THEN getUserIdColumn(NoMetric, "pageviews")
                             ELSE getAnonymousIdColumn(NoMetric, "pageviews"))
        first == Call("MIN", <<timestampCol>>)
    IN  [comment |-> <<"Users visiting specific pages">>,
         select |-> <<As(userIdCol, "user_id"),
                      As(first, "actual_start"),
                      As(addDateInterval(first, p.conversionWindow), "conversion_end"),
                      As(subtractHalfHour(first), "session_start")>>,
         from |-> [table |-> getFullTableName(
                                 OrElse(Get(settings["pageviews"], "table"), "pages")),
                   alias |-> ""],
         join |-> <<>>,
         where |->
             <<[left |-> timestampCol, operator |-> ">=",
                right |-> toTimestamp(dateOnly(p.from))],
               [left |-> timestampCol, operator |-> "<=",
                right |-> toTimestamp(dateOnly(p.to))]>>
             \o (IF IsSet(Get(p, "urlRegex")) /\ p.urlRegex # ".*"
                 THEN <<regexMatch(
                            Col("", OrElse(Get(settings["pageviews"], "urlColumn"),
                                           "path")),
                            p.urlRegex)>>
                 ELSE <<>>),
         groupBy |-> <<userIdCol>>]

percentileNumbers ==
    <<Rat(1, 100), Rat(5, 100), Rat(10, 100), Rat(20, 100), Rat(30, 100),
      Rat(40, 100), Rat(50, 100), Rat(60, 100), Rat(70, 100), Rat(80, 100),
      Rat(90, 100), Rat(95, 100), Rat(99, 100)>>

\* Math.floor(x) of a number that is not negative.
MathFloor(x) == x.n \div x.d

\* this.percentile(col, n): left to the dialect.
percentile(col, n) == [kind |-> "percentile", arg |-> col, fraction |-> n]

\* p${Math.floor(n * 100)}; the product of each of the thirteen fractions
\* with 100 is, in double arithmetic, the whole number itself.
percentileName(n) == <<"p">> \o NatToText(MathFloor(JsMul(n, Num(100))))

\* A ladder that is emitted whatever the type of the metric.
percentileColumns_AnyType(p, overall) ==
    IF p.includePercentiles
    THEN [i \in 1..Len(percentileNumbers) |->
            [name |-> percentileName(percentileNumbers[i]),
             expr |-> IF overall THEN percentile(Col("", "value"), percentileNumbers[i])
                      ELSE Number(0)]]
    ELSE <<>>

\* The percentile columns of the overall SELECT and of the SELECT by date.
percentileColumns(p, overall) ==
    IF p.includePercentiles /\ p.metric.type # "binomial"
    THEN [i \in 1..Len(percentileNumbers) |->
            [name |-> percentileName(percentileNumbers[i]),
             expr |-> IF overall THEN percentile(Col("", "value"), percentileNumbers[i])
                      ELSE Number(0)]]
    ELSE <<>>

\* A join whose window is open at its start.
MetricJoin_OpenStart(metric) ==
    [table |-> "__metric", alias |-> "m",
     on |-> <<[left |-> Col("m", "user_id"), operator |-> "=",
               right |-> Col("d", "user_id")],
              [left |-> Col("m", "actual_start"), operator |-> ">",
               right |-> Col("d", IF metric.earlyStart THEN "session_start"
                                  ELSE "actual_start")],
              [left |-> Col("m", "actual_start"), operator |-> "<=",
               right |-> Col("d", "conversion_end")]>>]

\* JOIN __metric m ON (m.user_id = d.user_id AND m.actual_start >= d.<start>
\* AND m.actual_start <= d.conversion_end)
MetricJoin(metric) ==
    [table |-> "__metric", alias |-> "m",
     on |-> <<[left |-> Col("m", "user_id"), operator |-> "=",
               right |-> Col("d", "user_id")],
              [left |-> Col("m", "actual_start"), operator |-> ">=",
               right |-> Col("d", IF metric.earlyStart THEN "session_start"
                                  ELSE "actual_start")],
              [left |-> Col("m", "actual_start"), operator |-> "<=",
               right |-> Col("d", "conversion_end")]>>]

\* COUNT(*) as count, AVG(value) as mean, STDDEV(value) as stddev
Moments ==
    <<As(Call("COUNT", <<Literal("*")>>), "count"),
      As(Call("AVG", <<Col("", "value")>>), "mean"),
      As(Call("STDDEV", <<Col("", "value")>>), "stddev")>>

getMetricValueQuery(p) ==
    LET userId == p.userIdType = "user"
        segment == IsSet(Get(p, "segmentQuery"))
        distinctUsers ==
            [select |-> <<As(Col("u", "user_id"), "user_id"),
                          As(Call("MIN", <<Col("u", "conversion_end")>>),
                             "conversion_end"),
                          As(Call("MIN", <<Col("u", "session_start")>>),
                             "session_start"),
                          As(Call("MIN", <<Col("u", "actual_start")>>),
                             "actual_start")>>,
             from |-> [table |-> "__users", alias |-> "u"],
             join |-> IF segment
                      THEN <<[table |-> "segment", alias |-> "s",
                              on |-> <<[left |-> Col("s", "user_id"), operator |-> "=",
                                        right |-> Col("u", "user_id")],
                                       [left |-> Col("s", "date"), operator |-> "<=",
                                        right |-> Col("u", "actual_start")]>>]>>
                      ELSE <<>>,
             groupBy |-> <<Col("u", "user_id")>>]
        userMetric ==
            [select |-> <<As(getAggregateMetricSqlValue(p.metric, Col("m", "value")),
                             "value")>>,
             from |-> [table |-> "__distinctUsers", alias |-> "d"],
             join |-> <<MetricJoin(p.metric)>>,
             groupBy |-> <<Col("d", "user_id")>>]
        userMetricDates ==
            [select |-> <<As(dateTrunc(Col("d", "actual_start")), "date"),
                          As(getAggregateMetricSqlValue(p.metric, Col("m", "value")),
                             "value")>>,
             from |-> [table |-> "__distinctUsers", alias |-> "d"],
             join |-> <<MetricJoin(p.metric)>>,
             groupBy |-> <<dateTrunc(Col("d", "actual_start")), Col("d", "user_id")>>]
    IN  Format(<<
          [comment |-> <<p.name, p.metric.name, "Metric">>,
           with |->
               <<[name |-> "__users", body |-> getPageUsersCTE(p, userId)]>>
               \o (IF segment
                   THEN <<[name |-> "segment",
                           body |-> getSegmentCTE(p.segmentQuery, p.segmentName,
                                                  userId)]>>
                   ELSE <<>>)
               \o <<[name |-> "__metric",
                     body |-> getMetricCTE(p.metric, p.conversionWindow, userId)],
                    [name |-> "__distinctUsers", body |-> distinctUsers],
                    [name |-> "__userMetric", body |-> userMetric]>>
               \o (IF p.includeByDate
                   THEN <<[name |-> "__userMetricDates", body |-> userMetricDates]>>
                   ELSE <<>>),
           select |-> (IF p.includeByDate THEN <<As(Literal("null"), "date")>>
                       ELSE <<>>) \o Moments,
           percentiles |-> percentileColumns(p, TRUE),
           from |-> [table |-> "__userMetric", alias |-> ""],
           union |->
               IF p.includeByDate
               THEN <<[select |-> <<As(Col("", "date"), "date")>> \o Moments,
                       percentiles |-> percentileColumns(p, FALSE),
                       from |-> [table |-> "__userMetricDates", alias |-> "d"],
                       groupBy |-> <<Col("", "date")>>,
                       orderBy |-> <<Col("", "date")>>]>>
               ELSE <<>>]>>)

getDimensionCTE(dimension, userId) ==
    IF ~userId
    THEN [comment |-> <<"Dimension", dimension.name>>,
          select |-> <<As(Col("i", "user_id"), "user_id"), As(Col("d", "value"), "value")>>,
          from |-> [subquery |-> dimension.sql, alias |-> "d"],
          join |-> <<getIdentifiesJoinSql(Col("d", "user_id"), TRUE)>>]
    ELSE [comment |-> <<"Dimension", dimension.name>>, subquery |-> dimension.sql]

\* Is the piece of text {{ name }}, with or without the white space?
IsPlaceholder(token, name) ==
    /\ token.kind = "literal"
    /\ token.text \in {"{{" \o name \o "}}", "{{ " \o name \o " }}"}

RECURSIVE Concat(_)
\* The sequences of a sequence, one after the other.
Concat(seqs) == IF seqs = <<>> THEN <<>> ELSE Head(seqs) \o Concat(Tail(seqs))

\* What String.prototype.replace puts in for one match: the replacement
\* with $$ read as $, $& as the matched text, $` and $' as the text before
\* and after the match; the patterns have no group for $1 to name.
Expand(replacement, matched, before, after) ==
    Concat([i \in 1..Len(replacement) |->
              CASE replacement[i] = Literal("$$") -> <<Literal("$")>>
                [] replacement[i] = Literal("$&") -> <<matched>>
                [] replacement[i] = Literal("$`") -> before
                [] replacement[i] = Literal("$'") -> after
                [] OTHER -> <<replacement[i]>>])

\* text.replace(/{{\s*name\s*}}/g, replacement), text in pieces, each
\* placeholder a piece of its own.
ReplaceAll(text, name, replacement) ==
    Concat([i \in 1..Len(text) |->
              IF IsPlaceholder(text[i], name)
              THEN Expand(replacement, text[i], SubSeq(text, 1, i - 1),
                          SubSeq(text, i + 1, Len(text)))
              ELSE <<text[i]>>])

\* '${trackingKey}' as the pieces of a replacement; the key is in pieces.
QuotedKey(trackingKey) ==
    <<Literal("'")>> \o [i \in 1..Len(trackingKey) |-> Literal(trackingKey[i])]
        \o <<Literal("'")>>

\* A replacement that takes the current time for the end of every phase.
ReplacePlaceholders_AlwaysNow(text, experiment, phase, now) ==
    LET started == ReplaceAll(text, "dateStart", <<toTimestamp(phase.dateStarted)>>)
        ended == ReplaceAll(started, "dateEnd", <<toTimestamp(now)>>)
    IN  ReplaceAll(ended, "experimentKey", QuotedKey(experiment.trackingKey))

\* A custom query with its three placeholders replaced, one after the
\* other; now is what new Date() reads when the phase has not ended.
ReplacePlaceholders(text, experiment, phase, now) ==
    LET started == ReplaceAll(text, "dateStart", <<toTimestamp(phase.dateStarted)>>)
        ended == ReplaceAll(started, "dateEnd",
                            <<toTimestamp(IF "dateEnded" \in DOMAIN phase
                                          THEN phase.dateEnded ELSE now)>>)
    IN  ReplaceAll(ended, "experimentKey", QuotedKey(experiment.trackingKey))

\* An activation join that asks for the same user only.
ActivationJoin_AnyTime ==
    [table |-> "__activationMetric", alias |-> "a",
     on |-> <<[left |-> Col("a", "user_id"), operator |-> "=",
               right |-> Col("e", "user_id")]>>]

\* JOIN __activationMetric a ON (a.user_id = e.user_id AND a.actual_start >=
\* e.actual_start AND a.actual_start <= e.conversion_end)
ActivationJoin ==
    [table |-> "__activationMetric", alias |-> "a",
     on |-> <<[left |-> Col("a", "user_id"), operator |-> "=",
               right |-> Col("e", "user_id")],
              [left |-> Col("a", "actual_start"), operator |-> ">=",
               right |-> Col("e", "actual_start")],
              [left |-> Col("a", "actual_start"), operator |-> "<=",
               right |-> Col("e", "conversion_end")]>>]

\* getExperimentMetricSql as the text it composes (getExperimentMetricSql
\* above is the same query seen from getExperimentResults, as one piece).
ExperimentMetricSql(metric, experiment, phase, activationMetric, dimension, now) ==
    LET userId == Get(experiment, "userIdType") = "user"
        hasDimension == dimension # NoObject
        hasActivation == activationMetric # NoMetric
        first == IF hasActivation THEN "a" ELSE "e"
        distinctUsers ==
            [select |-> <<As(Col("e", "user_id"), "user_id"),
                          As(Col("e", "variation"), "variation"),
                          As(IF hasDimension THEN Col("d", "value")
                             ELSE Literal("'All'"), "dimension"),
                          As(Call("MIN", <<Col(first, "actual_start")>>),
                             "actual_start"),
                          As(Call("MIN", <<Col(first, "session_start")>>),
                             "session_start"),
                          As(Call("MIN", <<Col(first, "conversion_end")>>),
                             "conversion_end")>>,
             from |-> [table |-> "__experiment", alias |-> "e"],
             join |->
                 (IF hasDimension
                  THEN <<[table |-> "__dimension", alias |-> "d",
                          on |-> <<[left |-> Col("d", "user_id"), operator |-> "=",
                                    right |-> Col("e", "user_id")]>>]>>
                  ELSE <<>>)
                 \o (IF hasActivation
                     THEN <<ActivationJoin>>
                     ELSE <<>>),
             groupBy |-> <<Col("", "variation"), Col("", "dimension"),
                           Col("e", "user_id")>>]
        userMetric ==
            [select |-> <<As(Col("d", "variation"), "variation"),
                          As(Col("d", "dimension"), "dimension"),
                          As(getAggregateMetricSqlValue(metric, Col("m", "value")),
                             "value")>>,
             from |-> [table |-> "__distinctUsers", alias |-> "d"],
             join |-> <<MetricJoin(metric)>>,
             groupBy |-> <<Col("", "variation"), Col("", "dimension"),
                           Col("d", "user_id")>>]
    IN  IF "sqlOverride" \in DOMAIN experiment
              /\ metric.id \in DOMAIN experiment.sqlOverride
        THEN [kind |-> "custom",
              tokens |-> ReplacePlaceholders(experiment.sqlOverride[metric.id],
                                             experiment, phase, now)]
        ELSE [comment |-> <<metric.name, metric.type>>,
              with |->
                  <<[name |-> "__experiment",
                     body |-> getExperimentCTE(experiment, phase, userId)],
                    [name |-> "__metric",
                     body |-> getMetricCTE(metric, experiment.conversionWindowDays,
                                           userId)]>>
                  \o (IF hasDimension
                      THEN <<[name |-> "__dimension",
                              body |-> getDimensionCTE(dimension, userId)]>>
                      ELSE <<>>)
                  \o (IF hasActivation
                      THEN <<[name |-> "__activationMetric",
                              body |-> getMetricCTE(activationMetric,
                                                    experiment.conversionWindowDays,
                                                    userId)]>>
                      ELSE <<>>)
                  \o <<[name |-> "__distinctUsers", body |-> distinctUsers],
                       [name |-> "__userMetric", body |-> userMetric]>>,
              select |-> <<As(Col("", "variation"), "variation"),
                           As(Col("", "dimension"), "dimension")>> \o Moments,
              from |-> [table |-> "__userMetric", alias |-> ""],
              groupBy |-> <<Col("", "variation"), Col("", "dimension")>>]

\* getExperimentUsersSql as the text it composes.
ExperimentUsersSql(experiment, phase, activationMetric, dimension, now) ==
    LET userId == Get(experiment, "userIdType") = "user"
        hasDimension == dimension # NoObject
        hasActivation == activationMetric # NoMetric
        distinctUsers ==
            [select |-> <<As(Col("e", "user_id"), "user_id"),
                          As(Col("e", "variation"), "variation"),
                          As(IF hasDimension THEN Col("d", "value")
                             ELSE Literal("'All'"), "dimension")>>,
             from |-> [table |-> "__experiment", alias |-> "e"],
             join |->
                 (IF hasDimension
                  THEN <<[table |-> "__dimension", alias |-> "d",
                          on |-> <<[left |-> Col("d", "user_id"), operator |-> "=",
                                    right |-> Col("e", "user_id")]>>]>>
                  ELSE <<>>)
                 \o (IF hasActivation
                     THEN <<ActivationJoin>>
                     ELSE <<>>),
             groupBy |-> <<Col("", "variation"), Col("", "dimension"),
                           Col("e", "user_id")>>]
    IN  IF "sqlOverride" \in DOMAIN experiment
              /\ "users" \in DOMAIN experiment.sqlOverride
        THEN [kind |-> "custom",
              tokens |-> ReplacePlaceholders(experiment.sqlOverride["users"],
                                             experiment, phase, now)]
        ELSE [comment |-> <<"Number of users in experiment">>,
              with |->
                  <<[name |-> "__experiment",
                     body |-> getExperimentCTE(experiment, phase, userId)]>>
                  \o (IF hasDimension
                      THEN <<[name |-> "__dimension",
                              body |-> getDimensionCTE(dimension, userId)]>>
                      ELSE <<>>)
                  \o (IF hasActivation
                      THEN <<[name |-> "__activationMetric",
                              body |-> getMetricCTE(activationMetric,
                                                    experiment.conversionWindowDays,
                                                    userId)]>>
                      ELSE <<>>)
                  \o <<[name |-> "__distinctUsers", body |-> distinctUsers]>>,
              select |-> <<As(Col("", "variation"), "variation"),
                           As(Col("", "dimension"), "dimension"),
                           As(Call("COUNT", <<Literal("*")>>), "users")>>,
              from |-> [table |-> "__distinctUsers", alias |-> ""],
              groupBy |-> <<Col("", "variation"), Col("", "dimension")>>]

\* ${arg}*0.05 and the like.
Times(arg, factor) == [kind |-> "product", arg |-> arg, factor |-> factor]

\* __experimentDates: the users of each variation of each experiment on
\* each day after the horizon.
ExperimentDatesCTE(from) ==
    LET experimentId == Col("", ExperimentIdColumn)
        variation == Col("", getVariationColumn)
        timestamp == Col("", getTimestampColumn(NoMetric, "experiments"))
    IN  [select |-> <<As(experimentId, "experiment_id"),
                      As(variation, "variation_id"),
                      As(dateTrunc(timestamp), "date"),
                      As(Call("COUNT DISTINCT",
                              <<Col("", getAnonymousIdColumn(NoMetric, "experiments"))>>),
                         "users")>>,
         from |-> [table |-> ExperimentsTable, alias |-> ""],
         where |-> <<[left |-> timestamp, operator |-> ">",
                      right |-> toTimestamp(from)]>>,
         groupBy |-> <<experimentId, variation, dateTrunc(timestamp)>>]

\* __userThresholds: 5% of the busiest day among the days with more than
\* 5 users.
UserThresholdsCTE ==
    [select |-> <<As(Col("", "experiment_id"), "experiment_id"),
                  As(Col("", "variation_id"), "variation_id"),
                  As(Times(Call("MAX", <<Col("", "users")>>), Rat(5, 100)),
                     "threshold")>>,
     from |-> [table |-> "__experimentDates", alias |-> ""],
     where |-> <<[left |-> Col("", "users"), operator |-> ">", right |-> Number(5)]>>,
     groupBy |-> <<Col("", "experiment_id"), Col("", "variation_id")>>]

\* A __variations that takes every day, busy or not.
VariationsCTE_EveryDay ==
    [select |-> <<As(Col("d", "experiment_id"), "experiment_id"),
                  As(Col("d", "variation_id"), "variation_id"),
                  As(Call("MIN", <<Col("d", "date")>>), "start_date"),
                  As(Call("MAX", <<Col("d", "date")>>), "end_date"),
                  As(Call("SUM", <<Col("d", "users")>>), "users")>>,
     from |-> [table |-> "__experimentDates", alias |-> "d"],
     join |-> <<[table |-> "__userThresholds", alias |-> "u",
                 on |-> <<[left |-> Col("d", "experiment_id"), operator |-> "=",
                           right |-> Col("u", "experiment_id")],
                          [left |-> Col("d", "variation_id"), operator |-> "=",
                           right |-> Col("u", "variation_id")]>>]>>,
     groupBy |-> <<Col("d", "experiment_id"), Col("d", "variation_id")>>]

\* __variations: first day, last day and users over the days above the
\* threshold.
VariationsCTE ==
    [select |-> <<As(Col("d", "experiment_id"), "experiment_id"),
                  As(Col("d", "variation_id"), "variation_id"),
                  As(Call("MIN", <<Col("d", "date")>>), "start_date"),
                  As(Call("MAX", <<Col("d", "date")>>), "end_date"),
                  As(Call("SUM", <<Col("d", "users")>>), "users")>>,
     from |-> [table |-> "__experimentDates", alias |-> "d"],
     join |-> <<[table |-> "__userThresholds", alias |-> "u",
                 on |-> <<[left |-> Col("d", "users"), operator |-> ">",
                           right |-> Col("u", "threshold")],
                          [left |-> Col("d", "experiment_id"), operator |-> "=",
                           right |-> Col("u", "experiment_id")],
                          [left |-> Col("d", "variation_id"), operator |-> "=",
                           right |-> Col("u", "variation_id")]>>]>>,
     groupBy |-> <<Col("d", "experiment_id"), Col("d", "variation_id")>>]

getPastExperimentQuery(from) ==
    Format(<<
      [comment |-> <<"Past Experiments">>,
       with |-> <<[name |-> "__experimentDates", body |-> ExperimentDatesCTE(from)],
                  [name |-> "__userThresholds", body |-> UserThresholdsCTE],
                  [name |-> "__variations", body |-> VariationsCTE]>>,
       from |-> [table |-> "__variations", alias |-> ""],
       where |-> <<[left |-> Col("", "users"), operator |-> ">", right |-> Number(200)],
                   [left |-> dateDiff(Col("", "start_date"), Col("", "end_date")),
                    operator |-> ">", right |-> Number(5)],
                   [left |-> dateDiff(toTimestamp(from), Col("", "start_date")),
                    operator |-> ">", right |-> Number(2)]>>,
       orderBy |-> <<Col("", "experiment_id"), Col("", "variation_id")>>]>>)

(***************************************************************************)
(* What a composed query returns: the warehouse evaluates it over its      *)
(* tables.  A table is a set of rows, a row a record of SQL values with a  *)
(* rowid of its own, so that two rows alike in every column stay two rows. *)
(***************************************************************************)
\* SQL values: numbers are the fractions of Rat, the rest is text or NULL.
SqlText(s) == [t |-> "text", s |-> s]
SqlNull == [t |-> "null"]

\* a <operator> b in three-valued logic, where only true passes.
Compare(a, operator, b) ==
    IF a.t = "null" \/ b.t = "null" THEN FALSE
    ELSE CASE operator = "=" -> a = b
           [] operator = ">" -> a.n * b.d > b.n * a.d
           [] operator = ">=" -> a.n * b.d >= b.n * a.d
           [] operator = "<=" -> a.n * b.d <= b.n * a.d

\* The value of a piece of SQL text spliced in as it stands.
LiteralValue(text) ==
    CASE text = "1" -> Num(1)
      [] text = "null" -> SqlNull
      [] text = "'All'" -> SqlText("All")

\* The day an instant falls on, and the instant the day begins at.
DayOf(instant) == instant \div HalfHoursPerDay
DayStart(day) == day * HalfHoursPerDay

\* The length of an interval in half hours.
IntervalLength(amount, unit) ==
    IF unit = "days" THEN amount * HalfHoursPerDay ELSE amount \div 30

Opt(record, field) == IF field \in DOMAIN record THEN record[field] ELSE <<>>

\* The select item of the name given, if any.
HasOutput(sel, name) ==
    \E i \in 1..Len(Opt(sel, "select")) : sel.select[i].as = name
Output(sel, name) ==
    sel.select[CHOOSE i \in 1..Len(sel.select) : sel.select[i].as = name].expr

\* The aliases of the row bindings env under which a column name is found.
Holders(env, name) == { a \in DOMAIN env : name \in DOMAIN env[a] }

\* Is every column of the expression one that env, or the select list,
\* knows?  (A query with a column that is not fails as a whole.)
RECURSIVE Resolves(_, _, _)
Resolves(e, env, sel) ==
    CASE e.kind = "column" ->
             IF e.alias # "" THEN e.alias \in DOMAIN env /\ e.name \in DOMAIN env[e.alias]
             ELSE Holders(env, e.name) # {} \/ HasOutput(sel, e.name)
      [] e.kind = "pieces" ->
             /\ Len(e.tokens) = 3
             /\ e.tokens[2] = "."
             /\ e.tokens[1] \in DOMAIN env
             /\ e.tokens[3] \in DOMAIN env[e.tokens[1]]
      [] e.kind = "interval" -> Resolves(e.arg, env, sel)
      [] e.kind = "product" -> Resolves(e.arg, env, sel)
      [] e.kind = "call" ->
             \A i \in 1..Len(e.args) : Resolves(e.args[i], env, sel)
      [] OTHER -> TRUE

\* The value of an expression without aggregates for one binding of rows.
RECURSIVE Value(_, _, _)
Value(e, env, sel) ==
    CASE e.kind = "column" ->
             IF e.alias # "" THEN env[e.alias][e.name]
             ELSE IF Holders(env, e.name) # {}
                  THEN env[CHOOSE a \in Holders(env, e.name) : TRUE][e.name]
                  ELSE Value(Output(sel, e.name), env, sel)
      [] e.kind = "pieces" -> env[e.tokens[1]][e.tokens[3]]
      [] e.kind = "number" -> Num(e.value)
      [] e.kind = "timestamp" -> Num(e.at)
      [] e.kind = "quoted" -> SqlText(e.text)
      [] e.kind = "literal" -> LiteralValue(e.text)
      [] e.kind = "interval" ->
             LET v == Value(e.arg, env, sel)
                 k == IntervalLength(e.amount, e.unit)
             IN  IF v.t = "null" THEN SqlNull
                 ELSE Num(IF e.sign = "+" THEN v.n + k ELSE v.n - k)
      [] e.kind = "product" ->
             LET v == Value(e.arg, env, sel)
             IN  IF v.t = "null" THEN SqlNull ELSE JsMul(v, e.factor)
      [] e.kind = "call" /\ e.fn = "date_trunc" ->
             LET v == Value(e.args[2], env, sel)
             IN  IF v.t = "null" THEN SqlNull ELSE Num(DayStart(DayOf(v.n)))
      [] e.kind = "call" /\ e.fn = "datediff" ->
             LET a == Value(e.args[2], env, sel)
                 b == Value(e.args[3], env, sel)
             IN  IF a.t = "null" \/ b.t = "null" THEN SqlNull
                 ELSE Num(DayOf(b.n) - DayOf(a.n))

\* A conjunct of ON or WHERE.
Holds(c, env, sel) ==
    Compare(Value(c.left, env, sel), c.operator, Value(c.right, env, sel))

Aggregates == {"COUNT", "COUNT DISTINCT", "MAX", "MIN", "SUM", "AVG", "STDDEV"}

\* Does the expression hold an aggregate?
RECURSIVE IsAggregate(_)
IsAggregate(e) ==
    CASE e.kind = "call" ->
             \/ e.fn \in Aggregates
             \/ \E i \in 1..Len(e.args) : IsAggregate(e.args[i])
      [] e.kind = "interval" -> IsAggregate(e.arg)
      [] e.kind = "product" -> IsAggregate(e.arg)
      [] OTHER -> FALSE

\* The rows bound in env, by alias: what tells two bindings apart.
RowIds(env) == [a \in DOMAIN env |-> env[a].rowid]

\* The values an expression takes over a group, one per binding, NULLs
\* left out as every aggregate but COUNT(*) leaves them out.
GroupValues(e, group, sel) ==
    { p \in { <<RowIds(env), Value(e, env, sel)>> : env \in group } :
        p[2].t # "null" }

RECURSIVE SumOf(_)
SumOf(pairs) ==
    IF pairs = {} THEN Num(0)
    ELSE LET p == CHOOSE q \in pairs : TRUE
             rest == SumOf(pairs \ {p})
         IN  Rat(p[2].n * rest.d + rest.n * p[2].d, p[2].d * rest.d)

Largest(values) == CHOOSE v \in values : \A w \in values : Compare(v, ">=", w)
Smallest(values) == CHOOSE v \in values : \A w \in values : Compare(v, "<=", w)

\* The value of an expression over a group of bindings.
RECURSIVE Aggregate(_, _, _)
Aggregate(e, group, sel) ==
    CASE e.kind = "call" /\ e.fn = "COUNT" -> Num(Cardinality(group))
      [] e.kind = "call" /\ e.fn = "COUNT DISTINCT" ->
             Num(Cardinality({ p[2] : p \in GroupValues(e.args[1], group, sel) }))
      [] e.kind = "call" /\ e.fn \in {"MAX", "MIN", "SUM", "AVG"} ->
             LET pairs == GroupValues(e.args[1], group, sel)
                 values == { p[2] : p \in pairs }
             IN  IF pairs = {} THEN SqlNull
                 ELSE (CASE e.fn = "MAX" -> Largest(values)
                         [] e.fn = "MIN" -> Smallest(values)
                         [] e.fn = "SUM" -> SumOf(pairs)
                         [] e.fn = "AVG" -> JsDiv(SumOf(pairs), Cardinality(pairs)))
      [] e.kind = "call" /\ e.fn = "STDDEV" ->
             \* left to the dialect: a function of the values of the group
             [t |-> "stddev", of |-> GroupValues(e.args[1], group, sel)]
      [] e.kind = "call" /\ e.fn = "LEAST" ->
             LET least == { Aggregate(e.args[i], group, sel) : i \in 1..Len(e.args) }
             IN  IF \E v \in least : v.t = "null" THEN SqlNull ELSE Smallest(least)
      [] e.kind = "interval" ->
             LET v == Aggregate(e.arg, group, sel)
                 k == IntervalLength(e.amount, e.unit)
             IN  IF v.t = "null" THEN SqlNull
                 ELSE Num(IF e.sign = "+" THEN v.n + k ELSE v.n - k)
      [] e.kind = "product" ->
             LET v == Aggregate(e.arg, group, sel)
             IN  IF v.t = "null" THEN SqlNull ELSE JsMul(v, e.factor)
      [] OTHER -> Value(e, CHOOSE env \in group : TRUE, sel)

\* FROM and the JOINs: every binding of rows that passes the ON conjuncts.
RECURSIVE Joined(_, _, _, _)
Joined(envs, joins, sel, tables) ==
    IF joins = <<>> THEN envs
    ELSE LET j == Head(joins)
             bound == { env @@ (j.alias :> r) : env \in envs, r \in tables[j.table] }
         IN  Joined({ env \in bound :
                        \A i \in 1..Len(j.on) : Holds(j.on[i], env, sel) },
                    Tail(joins), sel, tables)

\* The rows FROM reads: those of a table, or those the caller's own
\* query in parentheses yields, which the warehouse keeps under its text.
FromRows(from, tables) ==
    IF "table" \in DOMAIN from THEN tables[from.table] ELSE tables[from.subquery]

Bindings(sel, tables) ==
    LET from == { (sel.from.alias :> r) : r \in FromRows(sel.from, tables) }
    IN  { env \in Joined(from, Opt(sel, "join"), sel, tables) :
            \A i \in 1..Len(Opt(sel, "where")) : Holds(sel.where[i], env, sel) }

OutputNames(sel) == { sel.select[i].as : i \in 1..Len(sel.select) }

\* One row of the result: per select item its value over the group, or
\* for the binding when nothing is grouped.
OutputRow(sel, group, grouped, rowid) ==
    [n \in OutputNames(sel) \cup {"rowid"} |->
        IF n = "rowid" THEN rowid
        ELSE IF grouped THEN Aggregate(Output(sel, n), group, sel)
        ELSE Value(Output(sel, n), CHOOSE env \in group : TRUE, sel)]

GroupKey(sel, env) ==
    [i \in 1..Len(sel.groupBy) |-> Value(sel.groupBy[i], env, sel)]

\* The rows of one SELECT over the tables given.
EvalSelect(sel, tables) ==
    LET envs == Bindings(sel, tables)
    IN  IF "from" \notin DOMAIN sel
        THEN \* the caller's own query, as it stands
             tables[sel.subquery]
        ELSE IF "select" \notin DOMAIN sel
        THEN \* SELECT * of one table
             { env[sel.from.alias] : env \in envs }
        ELSE IF "groupBy" \in DOMAIN sel
        THEN { OutputRow(sel, { env \in envs : GroupKey(sel, env) = k }, TRUE, k) :
                 k \in { GroupKey(sel, env) : env \in envs } }
        ELSE IF \E i \in 1..Len(sel.select) : IsAggregate(sel.select[i].expr)
        THEN {OutputRow(sel, envs, TRUE, <<>>)}
        ELSE { OutputRow(sel, {env}, FALSE, RowIds(env)) : env \in envs }

\* WITH name as (body), ...: each body may read the tables before it.
RECURSIVE WithTables(_, _)
WithTables(ctes, tables) ==
    IF ctes = <<>> THEN tables
    ELSE WithTables(Tail(ctes),
                    (Head(ctes).name :> EvalSelect(Head(ctes).body, tables)) @@ tables)

\* The rows of a composed query: its SELECT over its WITH tables.
EvalQuery(q, tables) == EvalSelect(q, WithTables(Opt(q, "with"), tables))

(***************************************************************************)
(* Calls of the column lookups and of the query composers: the arguments   *)
(* are drawn when the call begins, the method returns in one step.         *)
(***************************************************************************)
\* Every object with properties among fields and values among values.
Objects(fields, values) == UNION { [D -> values] : D \in SUBSET fields }

\* What a configured column name may hold: undefined, the empty string or
\* a name that tells where it was configured.
ColumnValues(where, column) == {Unset, "", where \o "_" \o column}

InitComposer(o, raw, args, tables) ==
    /\ InitCall(o)
    /\ variationFormat = constructor(raw)["experiments"]["variationFormat"]
    /\ variations = <<>>
    /\ metrics = <<>>
    /\ settings = constructor(raw)
    /\ params = args @@ [raw |-> raw]
    /\ warehouse = tables

\* The method returns value to its caller.
Return(o, value) ==
    /\ op = o
    /\ pc = "issuing"
    /\ pc' = "returned"
    /\ result' = Fulfilled(value)
    /\ UNCHANGED <<inputs, op, variationFormat, variations, metrics, query, calls,
                   branch, delivered, dimensionMap>>

ColumnOps == {"getUserIdColumn", "getAnonymousIdColumn", "getTimestampColumn"}

ColumnOf(o) ==
    CASE o = "getUserIdColumn" -> "userIdColumn"
      [] o = "getAnonymousIdColumn" -> "anonymousIdColumn"
      [] o = "getTimestampColumn" -> "timestampColumn"

\* The sections the signature of each lookup admits.
SectionsOf(o) ==
    CASE o = "getUserIdColumn" ->
             {"experiments", "pageviews", "users", "identifies", "default"}
      [] o = "getAnonymousIdColumn" ->
             {"experiments", "pageviews", "identifies", "default"}
      [] o = "getTimestampColumn" -> {"experiments", "pageviews", "default"}

\* Settings in which section s and the default section are each absent or
\* hold the column absent, undefined, empty or named.
ColumnSettings(s, column) ==
    UNION { { f @@ g : f \in [{s} \cap D -> Objects({column}, ColumnValues(s, column))],
                       g \in [{"default"} \cap D ->
                                 Objects({column}, ColumnValues("default", column))] } :
              D \in SUBSET {s, "default"} }

\* null, or a metric with the override absent, undefined, empty or named.
MetricArgs(column) ==
    {NoMetric} \cup { f @@ [id |-> "m1"] :
                        f \in Objects({column}, ColumnValues("metric", column)) }

InitColumnLookup ==
    \E o \in ColumnOps : \E s \in SectionsOf(o) :
        \E m \in MetricArgs(ColumnOf(o)), raw \in ColumnSettings(s, ColumnOf(o)) :
            InitComposer(o, raw, [metric |-> m, section |-> s], NoObject)

GetUserIdColumn ==
    Return("getUserIdColumn", getUserIdColumn(params.metric, params.section))

GetAnonymousIdColumn ==
    Return("getAnonymousIdColumn", getAnonymousIdColumn(params.metric, params.section))

GetTimestampColumn ==
    Return("getTimestampColumn", getTimestampColumn(params.metric, params.section))

\* Settings with one section given, its built-in fields each absent,
\* undefined, empty or named; and the settings with no section at all.
SectionSettings ==
    UNION { { [x \in {s} |-> obj] :
                obj \in Objects(DOMAIN DefaultSettings[s],
                                {Unset, "", "custom"}) } : s \in Sections }
        \cup {NoObject}

InitVariationColumn ==
    \E raw \in SectionSettings : InitComposer("getVariationColumn", raw, NoObject, NoObject)

GetVariationColumn == Return("getVariationColumn", getVariationColumn)

\* Settings that name every table and column of their own.
CustomSettings ==
    [default |-> [userIdColumn |-> "default_userIdColumn",
                  anonymousIdColumn |-> "default_anonymousIdColumn",
                  timestampColumn |-> "default_timestampColumn"],
     experiments |-> [table |-> "custom_experiments",
                      experimentIdColumn |-> "custom_experimentIdColumn",
                      variationColumn |-> "custom_variationColumn",
                      userIdColumn |-> "experiments_userIdColumn",
                      anonymousIdColumn |-> "experiments_anonymousIdColumn",
                      timestampColumn |-> "experiments_timestampColumn"],
     pageviews |-> [table |-> "custom_pages"],
     identifies |-> [table |-> "custom_identifies",
                     userIdColumn |-> "identifies_userIdColumn",
                     anonymousIdColumn |-> "identifies_anonymousIdColumn"]]

ComposerSettings == {NoObject, CustomSettings}

MetricTypes == {"binomial", "count", "duration", "revenue"}
UserIdTypes == {"user", "anonymous", "either"}

\* metric.column: none, a plain column, an expression with the marker.
MetricColumns ==
    {<<>>, <<"amount">>, <<AliasMarker, ".ended - ", AliasMarker, ".started">>}

\* The column overrides of a metric: none, or all three.
MetricOverrides ==
    {NoObject,
     [userIdColumn |-> "metric_userIdColumn",
      anonymousIdColumn |-> "metric_anonymousIdColumn",
      timestampColumn |-> "metric_timestampColumn"]}

MetricConditions ==
    {<<>>, <<[column |-> "event", operator |-> "=", value |-> "purchase"]>>}

Metric(type, column, userIdType, conditions, cap, earlyStart) ==
    [id |-> "m1", name |-> "metric", table |-> "events", type |-> type,
     column |-> column, userIdType |-> userIdType, conditions |-> conditions,
     cap |-> cap, earlyStart |-> earlyStart]

conversionWindowDays == 3

InitMetricCTE ==
    \E raw \in ComposerSettings, userId \in BOOLEAN, type \in MetricTypes,
       column \in MetricColumns, userIdType \in UserIdTypes,
       overrides \in MetricOverrides, conditions \in MetricConditions :
        InitComposer("getMetricCTE", raw,
                     [metric |-> overrides @@ Metric(type, column, userIdType,
                                                      conditions, 0, FALSE),
                      conversionWindowDays |-> conversionWindowDays,
                      userId |-> userId],
                     NoObject)

GetMetricCTE ==
    Return("getMetricCTE",
           getMetricCTE(params.metric, params.conversionWindowDays, params.userId))

\* experiment.userIdType: "user", "anonymous" or absent.
Experiments ==
    { t @@ [trackingKey |-> "exp", conversionWindowDays |-> conversionWindowDays] :
        t \in Objects({"userIdType"}, {"user", "anonymous"}) }

\* A phase that began at instant 0 and has ended at instant 96 or not yet.
Phases == { e @@ [dateStarted |-> 0] : e \in Objects({"dateEnded"}, {96}) }

InitExperimentCTE ==
    \E raw \in ComposerSettings, userId \in BOOLEAN, experiment \in Experiments,
       phase \in Phases :
        InitComposer("getExperimentCTE", raw,
                     [experiment |-> experiment, phase |-> phase, userId |-> userId],
                     NoObject)

GetExperimentCTE ==
    Return("getExperimentCTE",
           getExperimentCTE(params.experiment, params.phase, params.userId))

\* The arguments of getMetricValueQuery: a month of page views, the metric
\* given, with or without a segment and a URL pattern.
MetricValueParams(metric, userIdType, segment, urlRegex, byDate, withPercentiles) ==
    segment @@
    [name |-> "estimate", metric |-> metric, userIdType |-> userIdType,
     conversionWindow |-> conversionWindowDays,
     from |-> 0, to |-> numDays * HalfHoursPerDay,
     urlRegex |-> urlRegex, includeByDate |-> byDate,
     includePercentiles |-> withPercentiles]

Segments ==
    {NoObject, [segmentQuery |-> "SELECT user_id, date FROM vips", segmentName |-> "vips"]}

InitMetricValueQuery ==
    \E raw \in ComposerSettings, type \in MetricTypes, earlyStart \in BOOLEAN,
       userIdType \in {"user", "anonymous"}, segment \in Segments,
       urlRegex \in {".*", "^/checkout"}, byDate \in BOOLEAN,
       withPercentiles \in BOOLEAN :
        InitComposer("getMetricValueQuery", raw,
                     [params |-> MetricValueParams(
                                     Metric(type, <<"amount">>, "either", <<>>, 0,
                                            earlyStart),
                                     userIdType, segment, urlRegex, byDate,
                                     withPercentiles)],
                     NoObject)

GetMetricValueQuery ==
    Return("getMetricValueQuery", getMetricValueQuery(params.params))

\* The tables of the warehouse as the settings name them and their
\* columns: a stored row x is laid out under the configured column names.
ExperimentsRow(x) ==
    (ExperimentIdColumn :> SqlText(x.experiment))
        @@ (getVariationColumn :> SqlText(x.variation))
        @@ (getTimestampColumn(NoMetric, "experiments") :> Num(x.at))
        @@ (getAnonymousIdColumn(NoMetric, "experiments") :> SqlText(x.anonymous))
        @@ (getUserIdColumn(NoMetric, "experiments") :> SqlText(x.user))
        @@ [rowid |-> x.rowid]

\* A row of metric.table: the identifiers and the timestamp under the
\* names the metric or the default section gives, the value under amount.
EventsRow(x, metric) ==
    (getTimestampColumn(metric, "default") :> Num(x.at))
        @@ (getAnonymousIdColumn(metric, "default") :> SqlText(x.anonymous))
        @@ (getUserIdColumn(metric, "default") :> SqlText(x.user))
        @@ [amount |-> Num(x.amount), rowid |-> x.rowid]

PagesTable == getFullTableName(OrElse(Get(settings["pageviews"], "table"), "pages"))

PagesRow(x) ==
    (getTimestampColumn(NoMetric, "pageviews") :> Num(x.at))
        @@ (getAnonymousIdColumn(NoMetric, "pageviews") :> SqlText(x.anonymous))
        @@ (getUserIdColumn(NoMetric, "pageviews") :> SqlText(x.user))
        @@ [rowid |-> x.rowid]

\* The rows stored under a name of the warehouse, none if it has none.
Stored(name) == IF name \in DOMAIN warehouse THEN warehouse[name] ELSE {}

\* The metric the call is about, where it has one.
CallMetric ==
    CASE op = "getExperimentMetricSql" -> params.metric
      [] op = "getMetricValueQuery" -> params.params.metric
      [] OTHER -> NoMetric

PhysicalTables ==
    (ExperimentsTable :> { ExperimentsRow(x) : x \in Stored("experiments") })
        @@ (PagesTable :> { PagesRow(x) : x \in Stored("pages") })
        @@ (IF CallMetric = NoMetric THEN <<>>
            ELSE (getFullTableName(CallMetric.table) :>
                      { EventsRow(x, CallMetric) : x \in Stored("events") }))
        @@ (IF "activationMetric" \in DOMAIN params
                  /\ params.activationMetric # NoMetric
            THEN (getFullTableName(params.activationMetric.table) :>
                      { EventsRow(x, params.activationMetric) :
                          x \in Stored("activations") })
            ELSE <<>>)
        @@ (IF "dimension" \in DOMAIN params /\ params.dimension # NoObject
            THEN (params.dimension.sql :>
                      { [user_id |-> SqlText(x.user), value |-> SqlText(x.value),
                         rowid |-> x.rowid] : x \in Stored("dimensions") })
            ELSE <<>>)

\* SELECT ... UNION SELECT ...: the rows of every branch; the row of the
\* first has a NULL date, the rows of the second a date each, so that no
\* two are alike for UNION to merge.
EvalUnion(q, all) ==
    EvalSelect(q, all)
        \cup UNION { EvalSelect(q.union[i], all) : i \in 1..Len(Opt(q, "union")) }

\* The warehouse runs the composed query and delivers its rows; beside
\* them delivered keeps the WITH tables it worked out on the way.
ExecuteQuery ==
    /\ op \in {"getPastExperimentQuery", "getExperimentMetricSql", "getMetricValueQuery",
              "getExperimentUsersSql"}
    /\ warehouse # NoObject
    /\ pc = "returned"
    /\ pc' = "executed"
    /\ LET all == WithTables(Opt(result.value[2], "with"), PhysicalTables)
       IN  delivered' = <<EvalUnion(result.value[2], all), all>>
    /\ UNCHANGED <<inputs, op, variationFormat, variations, metrics, query, calls,
                   branch, dimensionMap, result>>

\* How many users a variation has on each of ten consecutive days: 250 in
\* all, evenly or growing from 7 to 43.
Spreads == {[i \in 1..10 |-> 25], [i \in 1..10 |-> 3 + 4 * i]}

\* The views of one variation: spread[i] users on the i-th day from
\* firstDay on, each seen once, and one more user seen once on spuriousDay.
ViewsOf(spread, firstDay, spuriousDay) ==
    UNION { { [rowid |-> <<i, k>>, experiment |-> "exp", variation |-> "0",
               at |-> DayStart(firstDay + i - 1) + (k % HalfHoursPerDay),
               anonymous |-> <<i, k>>, user |-> <<i, k>>] : k \in 1..spread[i] } :
              i \in DOMAIN spread }
        \cup {[rowid |-> <<0, 1>>, experiment |-> "exp", variation |-> "0",
                at |-> DayStart(spuriousDay) + 1,
                anonymous |-> <<0, 1>>, user |-> <<0, 1>>]}

\* The horizon falls on day 0; the variation starts on day 3 or 4; the
\* spurious day is two days before its first day, or one or three days
\* after its last.
InitPastExperimentQuery ==
    \E raw \in ComposerSettings, from \in {0, 17}, spread \in Spreads,
       firstDay \in {3, 4}, gap \in {-2, 10, 12} :
        InitComposer("getPastExperimentQuery", raw,
                     [from |-> from, spread |-> spread, firstDay |-> firstDay,
                      spuriousDay |-> firstDay + gap],
                     [experiments |-> ViewsOf(spread, firstDay, firstDay + gap)])

\* How many days a series of daily user counts runs over.
MaxDays == 3

\* The users a variation may have on a day: none, 2, 6 or 60.
DailyCounts == {0, 2, 6, 60}

\* The views of one variation: series[i] users on the i-th day from
\* firstDay on, each seen once.
SeriesViews(series, firstDay) ==
    UNION { { [rowid |-> <<i, k>>, experiment |-> "exp", variation |-> "0",
               at |-> DayStart(firstDay + i - 1) + (k % HalfHoursPerDay),
               anonymous |-> <<i, k>>, user |-> <<i, k>>] : k \in 1..series[i] } :
              i \in DOMAIN series }

\* A call of getPastExperimentQuery over every series of daily counts, the
\* first day the third after the horizon.
InitPastExperimentSeries ==
    \E series \in [1..MaxDays -> DailyCounts] :
        InitComposer("getPastExperimentQuery", NoObject,
                     [from |-> 0, series |-> series, firstDay |-> 3],
                     [experiments |-> SeriesViews(series, 3)])

GetPastExperimentQuery ==
    Return("getPastExperimentQuery", getPastExperimentQuery(params.from))

\* How many events the events table holds at most.
MaxEvents == 2

\* metric.cap: none, or 1.
Caps == {0, 1}

\* The metrics whose value the warehouse can work out: binomial, count of
\* events, count of distinct amounts, duration and revenue in amount.
MeasuredMetrics ==
    { Metric("binomial", <<>>, "either", <<>>, cap, earlyStart) :
        cap \in Caps, earlyStart \in BOOLEAN }
    \cup { Metric("count", column, "either", <<>>, cap, earlyStart) :
             column \in {<<>>, <<"amount">>}, cap \in Caps, earlyStart \in BOOLEAN }
    \cup { Metric("duration", <<"amount">>, "either", <<>>, cap, earlyStart) :
             cap \in Caps, earlyStart \in BOOLEAN }
    \cup { Metric("revenue", <<"amount">>, "either", <<>>, cap, FALSE) : cap \in Caps }

Person(u) == [user |-> "u" \o u, anonymous |-> "a" \o u]

\* The events there may be.  Of user 1, first exposed at instant 48: two
\* alike two half hours later, one at the very end of the conversion
\* window, one a half hour before the exposure.  Of user 2, first exposed
\* at 48 too: one at that instant, one a half hour past the end of the
\* window, one two half hours before the exposure.  One of a user never
\* exposed.
EventPool ==
    {Person("1") @@ [rowid |-> 1, amount |-> 1, at |-> 50],
     Person("1") @@ [rowid |-> 2, amount |-> 1, at |-> 50],
     Person("1") @@ [rowid |-> 3, amount |-> 3,
                     at |-> 48 + conversionWindowDays * HalfHoursPerDay],
     Person("1") @@ [rowid |-> 4, amount |-> 5, at |-> 47],
     Person("2") @@ [rowid |-> 5, amount |-> 3, at |-> 48],
     Person("2") @@ [rowid |-> 6, amount |-> 3,
                     at |-> 48 + conversionWindowDays * HalfHoursPerDay + 1],
     Person("2") @@ [rowid |-> 7, amount |-> 5, at |-> 46],
     Person("3") @@ [rowid |-> 8, amount |-> 5, at |-> 50]}

EventSets == { E \in SUBSET EventPool : Cardinality(E) <= MaxEvents }

Exposure(u, variation, at, rowid) ==
    Person(u) @@ [rowid |-> rowid, experiment |-> "exp", variation |-> variation,
                  at |-> at]

\* User 1 and user 2 are exposed at instant 48, each to one variation;
\* user 1 is exposed again, to the same variation and to the other one.
Exposures ==
    {Exposure("1", "0", 48, 1), Exposure("2", "1", 48, 2),
     Exposure("1", "0", 52, 3), Exposure("1", "1", 60, 4)}

\* The page views of user 1 and user 2, one each and a second of user 1.
PageViews ==
    {Person("1") @@ [rowid |-> 1, at |-> 48], Person("2") @@ [rowid |-> 2, at |-> 48],
     Person("1") @@ [rowid |-> 3, at |-> 52]}

\* A call of getExperimentMetricSql whose query the warehouse then runs.
InitExperimentMetricSql ==
    \E raw \in ComposerSettings, metric \in MeasuredMetrics, events \in EventSets,
       experiment \in Experiments :
        /\ Get(experiment, "userIdType") # "anonymous"
        /\ InitComposer("getExperimentMetricSql", raw,
                        [metric |-> metric, experiment |-> experiment,
                         phase |-> [dateStarted |-> 0],
                         activationMetric |-> NoMetric, dimension |-> NoObject],
                        [experiments |-> Exposures, events |-> events])

\* The text the call composes when new Date() reads now.
ComposedAt(now) ==
    IF op = "getExperimentUsersSql"
    THEN Format(<<ExperimentUsersSql(params.experiment, params.phase,
                                     params.activationMetric, params.dimension, now)>>)
    ELSE Format(<<ExperimentMetricSql(params.metric, params.experiment, params.phase,
                                      params.activationMetric, params.dimension,
                                      now)>>)

GetExperimentMetricSql == Return("getExperimentMetricSql", ComposedAt(clock))

GetExperimentUsersSql == Return("getExperimentUsersSql", ComposedAt(clock))

\* How far the clock moves on between two compositions.
MaxTicks == 1

\* Time passes after the text was composed.
Tick ==
    /\ op \in {"getExperimentUsersSql", "getExperimentMetricSql"}
    /\ warehouse = NoObject
    /\ pc = "returned"
    /\ clock < 2 * HalfHoursPerDay + MaxTicks
    /\ clock' = clock + 1
    /\ UNCHANGED <<settings, params, warehouse, op, pc, variationFormat, variations,
                   metrics, query, calls, branch, delivered, dimensionMap, result>>

\* The caller composes the same query once more, from the same arguments;
\* delivered keeps the second text beside the first in result.
Recompose ==
    /\ op \in {"getExperimentUsersSql", "getExperimentMetricSql"}
    /\ warehouse = NoObject
    /\ pc = "returned"
    /\ pc' = "recomposed"
    /\ delivered' = <<ComposedAt(clock)>>
    /\ UNCHANGED <<inputs, op, variationFormat, variations, metrics, query, calls,
                   branch, dimensionMap, result>>

\* Custom queries: one with each placeholder, one with a placeholder twice
\* and differently spaced, one with none.
OverrideTexts ==
    {<<Literal("SELECT * FROM t WHERE ts >= "), Literal("{{dateStart}}"),
       Literal(" AND ts <= "), Literal("{{ dateEnd }}"), Literal(" AND k = "),
       Literal("{{experimentKey}}")>>,
     <<Literal("{{ experimentKey }}"), Literal(" <> "), Literal("{{experimentKey}}")>>,
     <<Literal("SELECT 1")>>}

\* experiment.sqlOverride: a custom query for the users, for metric m1 or
\* for both.
SqlOverrides ==
    { [k \in D |-> text] : D \in (SUBSET {"users", "m1"}) \ {{}}, text \in OverrideTexts }

\* Tracking keys in pieces: a plain one and two with a dollar sign.
TrackingKeys == {<<"exp">>, <<"exp", "$&">>, <<"US", "$$">>}

OverrideExperiments ==
    { [trackingKey |-> k, conversionWindowDays |-> conversionWindowDays,
       userIdType |-> "user", sqlOverride |-> o] :
        k \in TrackingKeys, o \in SqlOverrides }

ActivationMetric ==
    [Metric("binomial", <<>>, "either", <<>>, 0, FALSE) EXCEPT !.id = "a1",
                                                                !.name = "activated",
                                                                !.table = "activations"]

Dimension == [name |-> "country", sql |-> "SELECT user_id, country as value FROM users"]

\* A call of getExperimentUsersSql or getExperimentMetricSql with every
\* kind of argument; the caller then composes the query a second time.
InitExperimentQuery ==
    \E o \in {"getExperimentUsersSql", "getExperimentMetricSql"},
       raw \in ComposerSettings, experiment \in Experiments \cup OverrideExperiments,
       phase \in Phases, activationMetric \in {NoMetric, ActivationMetric},
       dimension \in {NoObject, Dimension} :
        InitComposer(o, raw,
                     [experiment |-> experiment, phase |-> phase,
                      activationMetric |-> activationMetric, dimension |-> dimension]
                     @@ (IF o = "getExperimentMetricSql"
                         THEN [metric |-> Metric("revenue", <<"amount">>, "either",
                                                 <<>>, 0, FALSE)]
                         ELSE <<>>),
                     NoObject)

\* A call of getMetricValueQuery whose query the warehouse then runs.
InitMeasuredValueQuery ==
    \E raw \in ComposerSettings, metric \in MeasuredMetrics, events \in EventSets,
       userIdType \in {"user", "anonymous"}, byDate \in BOOLEAN :
        InitComposer("getMetricValueQuery", raw,
                     [params |-> MetricValueParams(metric, userIdType, NoObject, ".*",
                                                   byDate, FALSE)],
                     [pages |-> PageViews, events |-> events])

\* The activation events there may be.  Of user 1, exposed to variation 0
\* at 48 and at 52 and to variation 1 at 60: one before every exposure,
\* one inside every window, one at the very end of the window of the
\* exposure at 52.  Of user 2, exposed at 48: one at that instant, one at
\* the very end of the window, one a half hour past it.
ActivationPool ==
    {Person("1") @@ [rowid |-> 1, amount |-> 1, at |-> 47],
     Person("1") @@ [rowid |-> 2, amount |-> 1, at |-> 100],
     Person("1") @@ [rowid |-> 3, amount |-> 1,
                     at |-> 52 + conversionWindowDays * HalfHoursPerDay],
     Person("2") @@ [rowid |-> 4, amount |-> 1, at |-> 48],
     Person("2") @@ [rowid |-> 5, amount |-> 1,
                     at |-> 48 + conversionWindowDays * HalfHoursPerDay],
     Person("2") @@ [rowid |-> 6, amount |-> 1,
                     at |-> 48 + conversionWindowDays * HalfHoursPerDay + 1]}

ActivationSets == { A \in SUBSET ActivationPool : Cardinality(A) <= MaxEvents }

\* A call of getExperimentUsersSql or getExperimentMetricSql with an
\* activation metric, whose query the warehouse then runs; the metric
\* counts events.
InitActivatedQuery ==
    \E o \in {"getExperimentUsersSql", "getExperimentMetricSql"},
       raw \in ComposerSettings, activations \in ActivationSets,
       experiment \in Experiments, earlyStart \in BOOLEAN :
        /\ Get(experiment, "userIdType") # "anonymous"
        /\ o = "getExperimentUsersSql" => ~earlyStart
        /\ InitComposer(o, raw,
                        [experiment |-> experiment, phase |-> [dateStarted |-> 0],
                         activationMetric |-> ActivationMetric,
                         dimension |-> NoObject]
                        @@ (IF o = "getExperimentMetricSql"
                            THEN [metric |-> Metric("count", <<>>, "either", <<>>, 0,
                                                    earlyStart)]
                            ELSE <<>>),
                        [experiments |-> Exposures, activations |-> activations]
                        @@ (IF o = "getExperimentMetricSql"
                            THEN [events |-> EventPool]
                            ELSE <<>>))

\* The rows the dimension's query may yield: two values for user 1, one
\* value twice for user 2, and one for a user never exposed.
DimensionPool ==
    {[rowid |-> 1, user |-> "u1", value |-> "US"],
     [rowid |-> 2, user |-> "u1", value |-> "CA"],
     [rowid |-> 3, user |-> "u2", value |-> "US"],
     [rowid |-> 4, user |-> "u2", value |-> "US"],
     [rowid |-> 5, user |-> "u3", value |-> "CA"]}

DimensionSets == { D \in SUBSET DimensionPool : Cardinality(D) <= MaxEvents }

\* A call of getExperimentUsersSql with or without a dimension over the
\* same exposures, whose query the warehouse then runs.
InitDimensionedQuery ==
    \E raw \in ComposerSettings, rows \in DimensionSets,
       dimension \in {NoObject, Dimension} :
        /\ dimension = NoObject => rows = {}
        /\ InitComposer("getExperimentUsersSql", raw,
                        [experiment |-> [trackingKey |-> "exp",
                                         conversionWindowDays |-> conversionWindowDays,
                                         userIdType |-> "user"],
                         phase |-> [dateStarted |-> 0],
                         activationMetric |-> NoMetric, dimension |-> dimension],
                        [experiments |-> Exposures, dimensions |-> rows])

\* A segment or a dimension as the caller holds it: a name, a query of the
\* caller's own and the identifier space the query is in.
Fragments ==
    { [name |-> "vips", sql |-> "SELECT user_id, date FROM vips", userIdType |-> t] :
        t \in {"user", "anonymous"} }

InitFragmentCTE ==
    \E o \in {"getSegmentCTE", "getDimensionCTE"}, raw \in ComposerSettings,
       fragment \in Fragments, userId \in BOOLEAN :
        InitComposer(o, raw, [fragment |-> fragment, userId |-> userId], NoObject)

GetSegmentCTE ==
    Return("getSegmentCTE",
           getSegmentCTE(params.fragment.sql, params.fragment.name, params.userId))

GetDimensionCTE ==
    Return("getDimensionCTE", getDimensionCTE(params.fragment, params.userId))

ComposerInit ==
    \/ InitColumnLookup
    \/ InitVariationColumn
    \/ InitMetricCTE
    \/ InitExperimentCTE
    \/ InitMetricValueQuery
    \/ InitPastExperimentQuery
    \/ InitExperimentMetricSql
    \/ InitMeasuredValueQuery
    \/ InitExperimentQuery
    \/ InitFragmentCTE
    \/ InitActivatedQuery
    \/ InitDimensionedQuery
    \/ InitPastExperimentSeries

ComposerNext ==
    \/ GetUserIdColumn
    \/ GetAnonymousIdColumn
    \/ GetTimestampColumn
    \/ GetVariationColumn
    \/ GetMetricCTE
    \/ GetExperimentCTE
    \/ GetMetricValueQuery
    \/ GetPastExperimentQuery
    \/ GetExperimentMetricSql
    \/ GetExperimentUsersSql
    \/ GetSegmentCTE
    \/ GetDimensionCTE
    \/ Tick
    \/ Recompose
    \/ ExecuteQuery

ComposerSpec == ComposerInit /\ [][ComposerNext]_vars

(***************************************************************************)
(* Properties of getExperimentResults.                                     *)
(***************************************************************************)
InExperimentResults == op = "getExperimentResults"

NumMetrics == Len(metrics)
UsersBranch == NumMetrics + 1

\* The index a delivered row resolves to.
Resolved(row) == ResolveVariation(variationFormat, variations, row.variation)

\* A resolved index that is a number outside [0, variationCount).
OutOfRange(x) == IsNum(x) /\ (x.n < 0 \/ x.n >= Len(variations))

\* A resolved index that is no number at all.
Malformed(x) == ~IsNum(x)

\* The rows delivered to branch b that were to land in entry (key, index).
RowsFor(b, key, index) ==
    IF b \in 1..Len(delivered)
    THEN SelectSeq(delivered[b],
                   LAMBDA r : r.dimension = key /\ Resolved(r) = index)
    ELSE <<>>

\* Every entry of the Map: the bucket's position and the property key.
Entries ==
    UNION { { <<i, p>> : p \in DOMAIN dimensionMap[i].variations } :
              i \in 1..Len(dimensionMap) }

EntryAt(e) == dimensionMap[e[1]].variations[e[2]]
KeyAt(e) == dimensionMap[e[1]].dimension

\* Position of a metric id in the metrics argument.
MetricPos(m) == CHOOSE i \in 1..NumMetrics : metrics[i] = m

\* The Map a fork-join merge builds: every result set merged after the
\* barrier, in the order the queries were issued.
RECURSIVE MergeInIssueOrder(_, _)
MergeInIssueOrder(map, b) ==
    IF b > NumMetrics
    THEN MergeUsersRows(map, variationFormat, variations, delivered[UsersBranch])
    ELSE MergeInIssueOrder(
             MergeMetricRows(map, variationFormat, variations, metrics[b], delivered[b]),
             b + 1)

\* The buckets of a result list, by dimension value.
BucketsOf(list) ==
    [k \in {list[i].dimension : i \in 1..Len(list)} |->
        list[MapIndex(list, k)].variations]

\* C1: every bucket getExperimentResults returns (user count and list of
\* per-metric summaries, order included) is the same for every completion
\* order of the N+1 queries: it is the bucket obtained by merging the result
\* sets in the order the queries were issued, so two metric queries with
\* rows for one dimension value and variation leave the same bucket
\* whichever completes first.
C1_CompletionOrderIndependent ==
    (InExperimentResults /\ pc = "returned")
        => BucketsOf(result.value.results) = BucketsOf(MergeInIssueOrder(<<>>, 1))

\* C2: as soon as one of the N+1 queries is rejected, the call has failed
\* with the failure of a rejected query, and a call that returned a value
\* had every one of its queries fulfilled: no partial result is returned.
C2_OneFailureFailsTheCall ==
    InExperimentResults =>
        /\ (\E b \in 1..Len(branch) : branch[b] = "rejected")
              => /\ result.status = "rejected"
                 /\ \E b \in 1..Len(branch) :
                      /\ branch[b] = "rejected"
                      /\ result.error = QueryError(calls[b])
        /\ result.status = "fulfilled"
              => \A b \in 1..Len(branch) : branch[b] = "fulfilled"

\* Witness of C2: the call failed although another query had already
\* delivered rows that were merged.
C2_Witness ==
    /\ InExperimentResults
    /\ pc = "failed"
    /\ result.status = "rejected"
    /\ dimensionMap # <<>>
    /\ \E b \in 1..Len(branch) : branch[b] = "fulfilled" /\ delivered[b] # <<>>

\* C3: rows are merged only behind the barrier: the dimension/variation map
\* holds something only once every issued query is fulfilled, so nothing is
\* merged while a query is pending or after one has failed.
C3_MergeOnlyAfterBarrier ==
    (InExperimentResults /\ dimensionMap # <<>>)
        => \A b \in 1..Len(branch) : branch[b] = "fulfilled"

\* C4: a row whose resolved variation index is a number outside
\* [0, variationCount) is dropped and every other row is processed: no entry
\* has such an index, every bucket and every entry comes from a row that was
\* not dropped, every row that was not dropped has its entry, each entry
\* holds exactly the summaries of the rows of each metric query that resolve
\* to it (in row order) and the users of the last such row of the users
\* query, and the call fails only when a query is rejected.
C4_OutOfRangeRowsDropped ==
    InExperimentResults =>
        /\ \A e \in Entries :
             LET entry == EntryAt(e)
                 key == KeyAt(e)
                 u == RowsFor(UsersBranch, key, entry.variation)
             IN  /\ ~OutOfRange(entry.variation)
                 /\ e[2] = ToPropertyKey(entry.variation)
                 /\ \E b \in 1..Len(delivered) :
                      RowsFor(b, key, entry.variation) # <<>>
                 /\ \A b \in 1..NumMetrics :
                      LET rows == RowsFor(b, key, entry.variation)
                      IN  SelectSeq(entry.metrics, LAMBDA x : x.metric = metrics[b])
                            = [i \in 1..Len(rows) |-> MetricSummary(metrics[b], rows[i])]
                 /\ entry.users =
                      IF u = <<>> THEN Num(0) ELSE OrZero(ParseInt(u[Len(u)].users))
        /\ \A i \in 1..Len(dimensionMap) :
             \E b \in 1..Len(delivered) : \E k \in 1..Len(delivered[b]) :
                /\ delivered[b][k].dimension = dimensionMap[i].dimension
                /\ ~OutOfRange(Resolved(delivered[b][k]))
        /\ \A b \in 1..Len(delivered) : \A k \in 1..Len(delivered[b]) :
             ~OutOfRange(Resolved(delivered[b][k]))
                => \E e \in Entries :
                     /\ KeyAt(e) = delivered[b][k].dimension
                     /\ EntryAt(e).variation = Resolved(delivered[b][k])
        /\ result.status = "rejected"
             => \E b \in 1..Len(branch) : branch[b] = "rejected"

\* Witness of C4: a returned call in which one result set held an
\* out-of-range row followed by a row that was merged.
C4_Witness ==
    /\ InExperimentResults
    /\ pc = "returned"
    /\ \E b \in 1..Len(delivered) :
         /\ Len(delivered[b]) = 2
         /\ OutOfRange(Resolved(delivered[b][1]))
         /\ IsNum(Resolved(delivered[b][2]))
         /\ ~OutOfRange(Resolved(delivered[b][2]))
    /\ Len(dimensionMap) = 1

\* C5: a row whose variation value resolves to no index at all (not a
\* number under "index", not a declared key under "key") adds nothing to the
\* result map: every entry has a number as its index and every bucket comes
\* from a row that resolved to an index in range.
C5_MalformedRowsSkipped ==
    InExperimentResults =>
        /\ \A e \in Entries : IsNum(EntryAt(e).variation)
        /\ \A i \in 1..Len(dimensionMap) :
             \E b \in 1..Len(delivered) : \E k \in 1..Len(delivered[b]) :
                /\ delivered[b][k].dimension = dimensionMap[i].dimension
                /\ ~Malformed(Resolved(delivered[b][k]))
                /\ ~OutOfRange(Resolved(delivered[b][k]))

\* C6: in every bucket of the returned result the per-metric summaries are
\* in the order of the metrics argument, whatever the completion order.
C6_SummariesInMetricOrder ==
    (InExperimentResults /\ pc = "returned") =>
        \A e \in Entries :
            \A i, j \in 1..Len(EntryAt(e).metrics) :
                i < j => MetricPos(EntryAt(e).metrics[i].metric)
                           <= MetricPos(EntryAt(e).metrics[j].metric)

\* C7: the call hands exactly N+1 texts to the execution capability, one per
\* metric in the order of the metrics argument and then the users query;
\* no result is consumed before all of them are issued; and the returned
\* audit string holds exactly these N+1 texts, formatted, in that order.
C7_QueriesIssuedAndAudited ==
    InExperimentResults =>
        /\ pc = "issuing" =>
              /\ Len(calls) <= NumMetrics
              /\ dimensionMap = <<>>
              /\ \A b \in 1..Len(branch) : branch[b] = "pending"
        /\ pc # "issuing" => Len(calls) = NumMetrics + 1
        /\ \A i \in 1..Len(calls) :
              calls[i] = IF i <= NumMetrics THEN getExperimentMetricSql(metrics[i])
                         ELSE getExperimentUsersSql
        /\ pc = "returned" =>
              LET a == result.value.query
              IN  /\ Len(a) = 2 * (NumMetrics + 1)
                  /\ \A i \in 1..(NumMetrics + 1) : a[2 * i - 1] = Format(calls[i])
                  /\ \A i \in 1..NumMetrics : a[2 * i] = <<";\n\n">>
                  /\ a[Len(a)] = <<";">>

\* Witness of C7: a returned call of two metrics whose second metric query
\* completed before the first.
C7_Witness ==
    /\ InExperimentResults
    /\ pc = "returned"
    /\ NumMetrics = 2
    /\ \E e \in Entries :
         /\ Len(EntryAt(e).metrics) = 2
         /\ EntryAt(e).metrics[1].metric = metrics[2]
         /\ EntryAt(e).metrics[2].metric = metrics[1]

(***************************************************************************)
(* Properties of the result parsers and of getImpactEstimation.            *)
(***************************************************************************)
Dated(rows) == SelectSeq(rows, LAMBDA r : r.date # "")
Dateless(rows) == SelectSeq(rows, LAMBDA r : r.date = "")

\* 0 where the text is no number, any number otherwise.
ZeroIfUnparsableInt(text, x) ==
    /\ IsNum(x)
    /\ IsNaN(ParseInt(text)) => x = Num(0)

ZeroIfUnparsableFloat(text, x) ==
    /\ IsNum(x)
    /\ IsNaN(ParseFloat(text)) => x = Num(0)

\* C8 for runUsersQuery: every dated row has its entry of the series and
\* the last dateless row its place in the summary, each with a number that
\* is 0 where the text of users is unparsable.
UsersQueryParsed ==
    (op = "runUsersQuery" /\ pc = "returned") =>
        LET rows == delivered[1]
            ret == result.value
        IN  /\ Len(ret.dates) = Len(Dated(rows))
            /\ \A i \in 1..Len(ret.dates) :
                 /\ ret.dates[i].date = Dated(rows)[i].date
                 /\ ZeroIfUnparsableInt(Dated(rows)[i].users, ret.dates[i].users)
            /\ IsNum(ret.users)
            /\ Dateless(rows) # <<>> =>
                 ZeroIfUnparsableInt(Dateless(rows)[Len(Dateless(rows))].users, ret.users)

\* C8 for runMetricValueQuery: the same for count, mean, stddev and the
\* percentile values.
MetricValueParsed ==
    (op = "runMetricValueQuery" /\ pc = "returned") =>
        LET rows == delivered[1]
            ret == result.value
            last == Dateless(rows)[Len(Dateless(rows))]
        IN  /\ Len(ret.dates) = Len(Dated(rows))
            /\ \A i \in 1..Len(ret.dates) :
                 /\ ret.dates[i].date = Dated(rows)[i].date
                 /\ ZeroIfUnparsableInt(Dated(rows)[i].count, ret.dates[i].count)
                 /\ ZeroIfUnparsableFloat(Dated(rows)[i].mean, ret.dates[i].mean)
                 /\ ZeroIfUnparsableFloat(Dated(rows)[i].stddev, ret.dates[i].stddev)
            /\ IsNum(ret.count) /\ IsNum(ret.mean) /\ IsNum(ret.stddev)
            /\ \A k \in DOMAIN ret.percentiles : IsNum(ret.percentiles[k])
            /\ Dateless(rows) # <<>> =>
                 /\ ZeroIfUnparsableInt(last.count, ret.count)
                 /\ ZeroIfUnparsableFloat(last.mean, ret.mean)
                 /\ ZeroIfUnparsableFloat(last.stddev, ret.stddev)
                 /\ \A j \in 1..Len(last.percentiles) :
                      /\ StripLeadingP(last.percentiles[j].name) \in DOMAIN ret.percentiles
                      /\ ZeroIfUnparsableInt(
                             last.percentiles[j].value,
                             ret.percentiles[StripLeadingP(last.percentiles[j].name)])

\* C8 for the row merge of getExperimentResults: every row that is not
\* dropped for its variation is stored, with numbers that are 0 where the
\* text is unparsable.
MergedRowsParsed ==
    InExperimentResults =>
        /\ \A e \in Entries :
             /\ IsNum(EntryAt(e).users)
             /\ \A i \in 1..Len(EntryAt(e).metrics) :
                  /\ IsNum(EntryAt(e).metrics[i].count)
                  /\ IsNum(EntryAt(e).metrics[i].mean)
                  /\ IsNum(EntryAt(e).metrics[i].stddev)
        /\ \A b \in 1..Len(delivered) : \A k \in 1..Len(delivered[b]) :
             LET row == delivered[b][k]
             IN  ~OutOfRange(Resolved(row)) =>
                   \E e \in Entries :
                     /\ KeyAt(e) = row.dimension
                     /\ EntryAt(e).variation = Resolved(row)
                     /\ b <= NumMetrics =>
                          \E i \in 1..Len(EntryAt(e).metrics) :
                            /\ EntryAt(e).metrics[i].metric = metrics[b]
                            /\ ZeroIfUnparsableInt(row.count, EntryAt(e).metrics[i].count)
                            /\ ZeroIfUnparsableFloat(row.mean, EntryAt(e).metrics[i].mean)
                            /\ ZeroIfUnparsableFloat(row.stddev,
                                                     EntryAt(e).metrics[i].stddev)
                     /\ (b = UsersBranch /\ IsNaN(ParseInt(row.users))
                           /\ RowsFor(b, row.dimension, Resolved(row)) = <<row>>)
                          => EntryAt(e).users = Num(0)

\* C8: in runUsersQuery, runMetricValueQuery and the row merge of
\* getExperimentResults a numeric field whose text cannot be parsed as a
\* number is stored as 0, the row is routed and stored all the same, and the
\* operation fails only when the execution capability rejects the query.
C8_UnparsableNumbersAreZero ==
    /\ UsersQueryParsed
    /\ MetricValueParsed
    /\ MergedRowsParsed
    /\ (op \in {"runUsersQuery", "runMetricValueQuery", "getExperimentResults"}
          /\ result.status = "rejected")
         => \E b \in 1..Len(branch) : branch[b] = "rejected"

\* Witness of C8: runMetricValueQuery returned for a dated row and a
\* dateless row whose count, mean, stddev and p50 are all unparsable.
C8_Witness ==
    /\ op = "runMetricValueQuery"
    /\ pc = "returned"
    /\ Len(delivered[1]) = 2
    /\ delivered[1][1].date # ""
    /\ IsNaN(ParseInt(delivered[1][1].count))
    /\ delivered[1][2].date = ""
    /\ IsNaN(ParseInt(delivered[1][2].count))
    /\ IsNaN(ParseFloat(delivered[1][2].mean))
    /\ IsNaN(ParseFloat(delivered[1][2].stddev))
    /\ Len(delivered[1][2].percentiles) = 2
    /\ IsNaN(ParseInt(delivered[1][2].percentiles[1].value))
    /\ result.value.count = Num(0)
    /\ result.value.dates[1].count = Num(0)

\* C9: every entry runPastExperimentQuery returns carries a number as its
\* user count, 0 where the text of users cannot be parsed.
C9_PastExperimentUsersNumeric ==
    (op = "runPastExperimentQuery" /\ pc = "returned") =>
        /\ Len(result.value.experiments) = Len(delivered[1])
        /\ \A i \in 1..Len(delivered[1]) :
             ZeroIfUnparsableInt(delivered[1][i].users,
                                 result.value.experiments[i].users)

\* A result set of getImpactEstimation that is missing or has no row.
NoRows(b) == branch[b] = "null" \/ delivered[b] = <<>>

\* C10: getImpactEstimation returns once its three queries have resolved;
\* when any of the three result sets is missing or empty the value returned
\* has users = 0, value = 0 and metricTotal = 0 and a non-empty audit string
\* holding the three composed queries; the call fails only when the
\* execution capability rejects a query.
C10_ImpactEstimationDegradesToZero ==
    op = "getImpactEstimation" =>
        /\ (pc = "returned" /\ \E b \in 1..3 : NoRows(b)) =>
              /\ result.status = "fulfilled"
              /\ result.value.users = Num(0)
              /\ result.value.value = Num(0)
              /\ result.value.metricTotal = Num(0)
        /\ pc = "returned" =>
              /\ result.value.query # <<>>
              /\ \E i, j, k \in 1..Len(result.value.query) :
                   /\ i < j /\ j < k
                   /\ result.value.query[i] = Format(usersSql)
                   /\ result.value.query[j] = Format(metricSql)
                   /\ result.value.query[k] = Format(valueSql)
        /\ result.status = "rejected"
              => \E b \in 1..Len(branch) : branch[b] = "rejected"

\* Witness of C10: the estimation returned with all three result sets empty.
C10_Witness ==
    /\ op = "getImpactEstimation"
    /\ pc = "returned"
    /\ \A b \in 1..3 : branch[b] = "fulfilled" /\ delivered[b] = <<>>
    /\ result.value.users = Num(0)

(***************************************************************************)
(* Properties of the row routing in runUsersQuery and runMetricValueQuery. *)
(***************************************************************************)
LastOf(rows) == rows[Len(rows)]

\* The summary runUsersQuery starts from, and the one of runMetricValueQuery.
ZeroUsers == Num(0)
ZeroSummary == [count |-> Num(0), mean |-> Num(0), stddev |-> Num(0)]

SummaryOf(ret) == [count |-> ret.count, mean |-> ret.mean, stddev |-> ret.stddev]

\* C11: in runUsersQuery and runMetricValueQuery the per-date series has
\* exactly one entry per dated row, in row order and with that row's date
\* and numbers; the overall summary (and the percentile map) is that of the
\* last dateless row whatever dated rows surround it, and it keeps its zero
\* initial value (no percentile map) when no row is dateless.
C11_RowsRoutedByDate ==
    /\ (op = "runUsersQuery" /\ pc = "returned") =>
          LET rows == delivered[1]
              ret == result.value
          IN  /\ Len(ret.dates) = Len(Dated(rows))
              /\ \A i \in 1..Len(ret.dates) :
                   ret.dates[i] = [date |-> Dated(rows)[i].date,
                                   users |-> OrZero(ParseInt(Dated(rows)[i].users))]
              /\ ret.users = IF Dateless(rows) = <<>> THEN ZeroUsers
                             ELSE OrZero(ParseInt(LastOf(Dateless(rows)).users))
    /\ (op = "runMetricValueQuery" /\ pc = "returned") =>
          LET rows == delivered[1]
              ret == result.value
          IN  /\ Len(ret.dates) = Len(Dated(rows))
              /\ \A i \in 1..Len(ret.dates) :
                   ret.dates[i] =
                       [date |-> Dated(rows)[i].date,
                        count |-> OrZero(ParseInt(Dated(rows)[i].count)),
                        mean |-> OrZero(ParseFloat(Dated(rows)[i].mean)),
                        stddev |-> OrZero(ParseFloat(Dated(rows)[i].stddev))]
              /\ SummaryOf(ret) =
                     IF Dateless(rows) = <<>> THEN ZeroSummary
                     ELSE [count |-> OrZero(ParseInt(LastOf(Dateless(rows)).count)),
                           mean |-> OrZero(ParseFloat(LastOf(Dateless(rows)).mean)),
                           stddev |-> OrZero(ParseFloat(LastOf(Dateless(rows)).stddev))]
              /\ (\A i \in 1..Len(rows) :
                      rows[i].date # "" \/ rows[i].percentiles = <<>>)
                   => ret.percentiles = <<>>

\* Witness of C11: runMetricValueQuery returned for a dateless row followed
\* by a dated row with other numbers and percentile columns of its own; the
\* summary is the dateless row's and the series has the one dated entry.
C11_Witness ==
    /\ op = "runMetricValueQuery"
    /\ pc = "returned"
    /\ Len(delivered[1]) = 2
    /\ delivered[1][1].date = ""
    /\ delivered[1][1].count = GoodStats.count
    /\ delivered[1][1].percentiles = <<>>
    /\ delivered[1][2].date # ""
    /\ delivered[1][2].count = BadStats.count
    /\ delivered[1][2].percentiles # <<>>
    /\ result.value.count = Num(5)
    /\ Len(result.value.dates) = 1
    /\ result.value.percentiles = <<>>

\* A column name of the form p<int>: the letter p, then decimal digits only.
IsPercentileName(name) ==
    /\ Len(name) >= 2
    /\ Head(name) = "p"
    /\ \A i \in 2..Len(name) : IsDigit(name[i], 10)

\* The names of the columns the dateless rows carry besides date, count,
\* mean and stddev.
OverallColumnNames(rows) ==
    UNION { { Dateless(rows)[i].percentiles[j].name :
                j \in 1..Len(Dateless(rows)[i].percentiles) } :
              i \in 1..Len(Dateless(rows)) }

\* C12: the percentile map runMetricValueQuery returns has an entry for a
\* column of an overall row exactly when the column is named p<int>, under
\* the key <int>; a column of any other name leaves no entry.
C12_PercentileMapOnlyPInt ==
    (op = "runMetricValueQuery" /\ pc = "returned") =>
        DOMAIN result.value.percentiles =
            { Tail(name) : name \in { n \in OverallColumnNames(delivered[1]) :
                                         IsPercentileName(n) } }

(***************************************************************************)
(* Properties of the variation formats.                                    *)
(***************************************************************************)
\* Variation keys that are exactly the stringified indices "0".."n-1".
StringifiedIndexKeys(keys) ==
    \A i \in 1..Len(keys) : keys[i] = NatToText(i - 1)

\* C13: for an experiment whose variation keys are "0".."n-1" in order,
\* every variation text a query of getExperimentResults returned resolves
\* to the same index under variationFormat "key" as under "index", and the
\* row is dropped under the one exactly when it is dropped under the other.
C13_KeyAndIndexFormatsAgree ==
    (InExperimentResults /\ StringifiedIndexKeys(variations)) =>
        \A b \in 1..Len(delivered) : \A k \in 1..Len(delivered[b]) :
            LET text == delivered[b][k].variation
                byKey == ResolveVariation("key", variations, text)
                byIndex == ResolveVariation("index", variations, text)
            IN  /\ byKey = byIndex
                /\ UnexpectedVariation(byKey, variations)
                      <=> UnexpectedVariation(byIndex, variations)

(***************************************************************************)
(* Properties of the settings and of the column lookups.                   *)
(***************************************************************************)
HardCoded(o) ==
    CASE o = "getUserIdColumn" -> "user_id"
      [] o = "getAnonymousIdColumn" -> "anonymous_id"
      [] o = "getTimestampColumn" -> "received_at"

\* What a lookup may return, highest precedence first: the override of the
\* metric, the setting of the requested section, the setting of the default
\* section, the literal.
Precedence(o) ==
    <<Get(params.metric, ColumnOf(o)),
      Get(settings[params.section], ColumnOf(o)),
      Get(settings["default"], ColumnOf(o)),
      HardCoded(o)>>

\* C16: getUserIdColumn, getAnonymousIdColumn and getTimestampColumn
\* return the first non-empty of: the metric's override, the requested
\* section's setting, the default section's setting, the literal
\* "user_id", "anonymous_id" or "received_at"; what they return is never
\* empty.
C16_ColumnLookupPrecedence ==
    (op \in ColumnOps /\ pc = "returned") =>
        /\ IsSet(result.value)
        /\ \E i \in 1..4 :
             /\ result.value = Precedence(op)[i]
             /\ \A j \in 1..(i - 1) : ~IsSet(Precedence(op)[j])

\* Witness of C16: the metric carries an empty override, the requested
\* section and the default section each name another column, and the
\* lookup returned the requested section's.
C16_Witness ==
    /\ op = "getUserIdColumn"
    /\ pc = "returned"
    /\ params.section = "identifies"
    /\ Get(params.metric, "userIdColumn") = ""
    /\ Get(settings["identifies"], "userIdColumn") = "identifies_userIdColumn"
    /\ Get(settings["default"], "userIdColumn") = "default_userIdColumn"
    /\ result.value = "identifies_userIdColumn"

\* C17: after construction every settings field with a built-in default is
\* non-empty: it holds the value given to the constructor where that value
\* is non-empty, the default where the section or the field was absent or
\* the field was given undefined or empty.
C17_DefaultedFieldsNeverEmpty ==
    \A s \in Sections : \A f \in DOMAIN DefaultSettings[s] :
        LET given == Get(Section(params.raw, s), f)
        IN  /\ IsSet(settings[s][f])
            /\ settings[s][f] = IF IsSet(given) THEN given ELSE DefaultSettings[s][f]

(***************************************************************************)
(* Properties of the composed fragments.                                   *)
(***************************************************************************)
\* The identifier space a caller asks for.
Requested(userId) == IF userId THEN "user" ELSE "anonymous"

\* The native space is one space, and not the one asked for.
SpacesDiffer(userId, native) ==
    native \in {"user", "anonymous"} /\ native # Requested(userId)

\* The expression a fragment selects under the name given.
Selected(fragment, name) ==
    fragment.select[CHOOSE i \in 1..Len(fragment.select) :
                        fragment.select[i].as = name].expr

IdentifiesTable == OrElse(Get(settings["identifies"], "table"), "identifies")

\* C15: the fragment of getMetricCTE and of getExperimentCTE has, when the
\* requested identifier space differs from the native one, exactly one
\* join, on the identifies table under the alias i, and selects its
\* identifier qualified with i and not with the alias of the primary table;
\* when the spaces match it has no join and selects the identifier as a
\* column of the primary table.
C15_IdentifyJoinIffSpacesDiffer ==
    (op \in {"getMetricCTE", "getExperimentCTE"} /\ pc = "returned") =>
        LET fragment == result.value
            native == IF op = "getMetricCTE" THEN params.metric.userIdType
                      ELSE Get(params.experiment, "userIdType")
            identifier == Selected(fragment, "user_id")
        IN  IF SpacesDiffer(params.userId, native)
            THEN /\ Len(fragment.join) = 1
                 /\ fragment.join[1].table = IdentifiesTable
                 /\ fragment.join[1].alias = "i"
                 /\ identifier.alias = "i"
                 /\ fragment.from.alias # "i"
            ELSE /\ fragment.join = <<>>
                 /\ identifier.kind = "column"
                 /\ identifier.alias \in {"", fragment.from.alias}

\* Witness of C15: getExperimentCTE composed the fragment for user ids over
\* an experiment tracked by anonymous id.
C15_Witness ==
    /\ op = "getExperimentCTE"
    /\ pc = "returned"
    /\ params.userId
    /\ Get(params.experiment, "userIdType") = "anonymous"
    /\ Len(result.value.join) = 1
    /\ Selected(result.value, "user_id") = Col("i", "user_id")

\* The rungs of the percentile ladder.
Ladder == <<1, 5, 10, 20, 30, 40, 50, 60, 70, 80, 90, 95, 99>>
LadderNames == [i \in 1..Len(Ladder) |-> <<"p">> \o NatToText(Ladder[i])]

\* The names of the percentile columns of a SELECT, in order.
PercentileNames(select) ==
    [i \in 1..Len(select.percentiles) |-> select.percentiles[i].name]

\* The SELECTs that make the rows of a composed query: the overall one and
\* the one united to it.
RowSelects(q) == <<q>> \o q.union

HasLadder(q) ==
    \A i \in 1..Len(RowSelects(q)) : PercentileNames(RowSelects(q)[i]) = LadderNames

HasNoPercentile(q) ==
    \A i \in 1..Len(RowSelects(q)) : RowSelects(q)[i].percentiles = <<>>

\* C19 as stated: getMetricValueQuery emits the thirteen columns p1, p5,
\* p10, p20, ..., p90, p95, p99 for a duration metric and no percentile
\* column for a binomial metric, whatever the other arguments.
C19_LadderByMetricType ==
    (op = "getMetricValueQuery" /\ pc = "returned") =>
        /\ params.params.metric.type = "duration" => HasLadder(result.value[2])
        /\ params.params.metric.type = "binomial" => HasNoPercentile(result.value[2])

\* C19 amended: when percentiles are asked for (includePercentiles),
\* getMetricValueQuery emits the thirteen columns p1, p5, p10, p20, ...,
\* p90, p95, p99 for a duration metric; for a binomial metric it emits no
\* percentile column, asked for or not; when they are not asked for it
\* emits none for any metric.
C19_LadderWhenRequested ==
    (op = "getMetricValueQuery" /\ pc = "returned") =>
        /\ (params.params.metric.type = "duration" /\ params.params.includePercentiles)
              => /\ HasLadder(result.value[2])
                 /\ Len(result.value[2].percentiles) = 13
        /\ params.params.metric.type = "binomial" => HasNoPercentile(result.value[2])
        /\ ~params.params.includePercentiles => HasNoPercentile(result.value[2])

\* Witness of C19: the query for a duration metric was composed with
\* percentiles and the series by date asked for.
C19_Witness ==
    /\ op = "getMetricValueQuery"
    /\ pc = "returned"
    /\ params.params.metric.type = "duration"
    /\ params.params.includePercentiles
    /\ params.params.includeByDate
    /\ Len(result.value[2].percentiles) = 13
    /\ result.value[2].percentiles[7].name = P50

(***************************************************************************)
(* Properties of the rows a composed query returns.                        *)
(***************************************************************************)
\* C20: over the views of one variation with 250 users on 10 consecutive
\* days and one more user on a spurious day, the first of the ten days more
\* than 2 days after the horizon, the past-experiment query returns one
\* row: it starts on the first and ends on the last of the ten days (a span
\* of 9 days between them, 10 days counted inclusively), the spurious day
\* outside, and its users are the 250, more than 200.
C20_SpuriousDayExcluded ==
    (op = "getPastExperimentQuery" /\ pc = "executed" /\ "spread" \in DOMAIN params) =>
        /\ Cardinality(delivered[1]) = 1
        /\ \A r \in delivered[1] :
             LET span == DayOf(r.end_date.n) - DayOf(r.start_date.n)
             IN  /\ r.start_date = Num(DayStart(params.firstDay))
                 /\ r.end_date = Num(DayStart(params.firstDay + 9))
                 /\ span \in {9, 10}
                 /\ ~(DayOf(r.start_date.n) <= params.spuriousDay
                        /\ params.spuriousDay <= DayOf(r.end_date.n))
                 /\ r.users = Num(250)
                 /\ r.users.n > 200

\* Witness of C20: the query ran over views whose spurious day comes
\* before the first of the ten days, and returned a row.
C20_Witness ==
    /\ op = "getPastExperimentQuery"
    /\ pc = "executed"
    /\ "spread" \in DOMAIN params
    /\ params.spuriousDay < params.firstDay
    /\ Cardinality(warehouse.experiments) = 251
    /\ delivered[1] # {}

(***************************************************************************)
(* Properties of the per-user metric value: what the __userMetric table of *)
(* the experiment metric query and of the metric value query holds, told   *)
(* from the stored rows themselves.                                        *)
(***************************************************************************)
Measured ==
    /\ op \in {"getExperimentMetricSql", "getMetricValueQuery"}
    /\ pc = "executed"

\* Does the call follow user ids rather than anonymous ids?
FollowsUserId ==
    IF op = "getMetricValueQuery" THEN params.params.userIdType = "user"
    ELSE Get(params.experiment, "userIdType") = "user"

\* The stored rows that bring a user in: page views, or exposures.
Entrances ==
    IF op = "getMetricValueQuery"
    THEN { x @@ [variation |-> ""] : x \in Stored("pages") }
    ELSE Stored("experiments")

\* Is the call one with an activation metric?
Activated ==
    /\ "activationMetric" \in DOMAIN params
    /\ params.activationMetric # NoMetric

\* The instants a user's window may be counted from, for the user and
\* variation of entrance x: those of the entrances themselves, or with an
\* activation metric those of the user's activation events that lie
\* between such an entrance and the end of its conversion window.
Anchors(x) ==
    LET same == { z \in Entrances : z.user = x.user /\ z.variation = x.variation }
    IN  IF Activated
        THEN { a.at : a \in { b \in Stored("activations") :
                                 /\ b.user = x.user
                                 /\ \E z \in same :
                                       /\ z.at <= b.at
                                       /\ b.at <= z.at + conversionWindowDays
                                                           * HalfHoursPerDay } }
        ELSE { z.at : z \in same }

Earliest(instants) == CHOOSE a \in instants : \A b \in instants : a <= b

\* One subject per user and variation, with the first instant its window
\* may be counted from.
Subjects ==
    { [user |-> x.user, anonymous |-> x.anonymous, variation |-> x.variation,
       start |-> Earliest(Anchors(x))] :
        x \in { y \in Entrances : Anchors(y) # {} } }

\* The events of the subject inside its conversion window, which opens a
\* half hour early for a metric with earlyStart.
QualifyingEvents(s) ==
    { e \in Stored("events") :
        /\ e.user = s.user
        /\ e.at >= (IF CallMetric.earlyStart THEN s.start - 1 ELSE s.start)
        /\ e.at <= s.start + conversionWindowDays * HalfHoursPerDay }

Converted == { s \in Subjects : QualifyingEvents(s) # {} }

\* The key of the subject's row in __userMetric.
SubjectKey(s) ==
    LET id == SqlText(IF FollowsUserId THEN s.user ELSE s.anonymous)
    IN  IF op = "getMetricValueQuery" THEN <<id>>
        ELSE <<SqlText(s.variation), SqlText("All"), id>>

UserMetricRows == delivered[2]["__userMetric"]

\* The body of the WITH table of the name given.
Cte(q, name) == q.with[CHOOSE i \in 1..Len(q.with) : q.with[i].name = name].body

\* The expression selected as value into __userMetric.
UserMetricValue == Output(Cte(result.value[2], "__userMetric"), "value")

Greatest(numbers) == CHOOSE a \in numbers : \A b \in numbers : a >= b

\* What the metric measures of a subject before any cap.
RawAggregate(s) ==
    LET amounts == { e.amount : e \in QualifyingEvents(s) }
    IN  CASE CallMetric.type = "count" ->
                 IF CallMetric.column # <<>> THEN Cardinality(amounts)
                 ELSE Cardinality(QualifyingEvents(s))
          [] CallMetric.type \in {"duration", "revenue"} -> Greatest(amounts)
          [] OTHER -> 1

IsClamp(e) == e.kind = "call" /\ e.fn = "LEAST"

OverallRows == { r \in delivered[1] : "date" \notin DOMAIN r \/ r.date = SqlNull }

\* C18: for a binomial metric the raw value of an event and the per-user
\* aggregate are the literal 1; __userMetric holds one row of value 1 for
\* each user and variation with one qualifying event or more, and the
\* result counts those users, however many events each has.
C18_BinomialOneRowPerUser ==
    (Measured /\ CallMetric.type = "binomial") =>
        /\ getRawMetricSqlValue(CallMetric, "m") = Literal("1")
        /\ UserMetricValue = Literal("1")
        /\ { r.rowid : r \in UserMetricRows } = { SubjectKey(s) : s \in Converted }
        /\ Cardinality(UserMetricRows) = Cardinality(Converted)
        /\ \A r \in UserMetricRows : r.value = Num(1)
        /\ \A r \in OverallRows :
              LET group == { s \in Converted :
                               op = "getExperimentMetricSql" =>
                                   SqlText(s.variation) = r.variation }
              IN  /\ r.count = Num(Cardinality(group))
                  /\ group # {} => r.mean = Num(1)
        /\ (op = "getExperimentMetricSql") =>
              { r.variation : r \in OverallRows }
                  = { SqlText(s.variation) : s \in Converted }

\* A user with two events alike inside the window.
C18_Witness ==
    /\ Measured
    /\ CallMetric.type = "binomial"
    /\ \E s \in Converted :
          \E e, f \in QualifyingEvents(s) :
              e.rowid # f.rowid /\ e.amount = f.amount /\ e.at = f.at
    /\ \E r \in OverallRows : r.count.n >= 1

(***************************************************************************)
(* Properties of getExperimentUsersSql and getExperimentMetricSql as       *)
(* composers of text.                                                      *)
(***************************************************************************)
ComposedTwice ==
    /\ op \in {"getExperimentUsersSql", "getExperimentMetricSql"}
    /\ pc = "recomposed"

\* The key of experiment.sqlOverride the call looks up.
OverrideKey == IF op = "getExperimentUsersSql" THEN "users" ELSE params.metric.id

HasOverride ==
    /\ "sqlOverride" \in DOMAIN params.experiment
    /\ OverrideKey \in DOMAIN params.experiment.sqlOverride

\* C21: the text composed a second time from the same experiment, phase,
\* metric, activation metric, dimension and settings is the text composed
\* the first time, whatever the clock read at either time.
C21_ComposedTextIsAFunctionOfInputs ==
    ComposedTwice => delivered[1] = result.value

\* Does the custom query the call uses ask for the phase end?
AsksForPhaseEnd ==
    /\ HasOverride
    /\ \E i \in 1..Len(params.experiment.sqlOverride[OverrideKey]) :
          IsPlaceholder(params.experiment.sqlOverride[OverrideKey][i], "dateEnd")

\* C21 as amended: the second text is the first unless the call uses a
\* custom query that asks for the end of a phase that has not ended, the
\* one case in which the text carries the time of its composition.
C21_ComposedTextApartFromOpenPhaseEnd ==
    (ComposedTwice /\ ~(AsksForPhaseEnd /\ "dateEnded" \notin DOMAIN params.phase)) =>
        delivered[1] = result.value

\* A second composition, later than the first, of a custom query that asks
\* for the end of a phase that has ended; and one of a composed query.
C21_Witness ==
    /\ ComposedTwice
    /\ clock > 2 * HalfHoursPerDay
    /\ AsksForPhaseEnd
    /\ "dateEnded" \in DOMAIN params.phase
    /\ delivered[1] = result.value

\* The phase end the text is to carry: that of the phase, else the
\* current time.
PhaseEnd == IF "dateEnded" \in DOMAIN params.phase THEN params.phase.dateEnded ELSE clock

\* What the placeholder stands for, if the piece is one.
Substitute(token) ==
    CASE IsPlaceholder(token, "dateStart") -> <<toTimestamp(params.phase.dateStarted)>>
      [] IsPlaceholder(token, "dateEnd") -> <<toTimestamp(PhaseEnd)>>
      [] IsPlaceholder(token, "experimentKey") ->
             QuotedKey(params.experiment.trackingKey)
      [] OTHER -> <<token>>

\* C27: with a custom query for "users" or for the metric's id the text
\* returned is that query with each placeholder replaced by the phase
\* start, the phase end (the current time while the phase is open) and
\* the quoted tracking key, piece for piece.  (Seen before the clock has
\* moved on from the time of the composition.)
C27_OverrideVerbatimButPlaceholders ==
    (op \in {"getExperimentUsersSql", "getExperimentMetricSql"}
        /\ pc = "returned" /\ warehouse = NoObject /\ HasOverride
        /\ clock = 2 * HalfHoursPerDay) =>
        LET text == params.experiment.sqlOverride[OverrideKey]
        IN  /\ result.value[2].kind = "custom"
            /\ result.value[2].tokens
                 = Concat([i \in 1..Len(text) |-> Substitute(text[i])])

(***************************************************************************)
(* Properties of the identifies bridge.                                    *)
(***************************************************************************)
\* The identifier column of a space, as a table's section names it.
SpaceColumn(space, metric, section) ==
    IF space = "user" THEN getUserIdColumn(metric, section)
    ELSE getAnonymousIdColumn(metric, section)

\* C22: where the requested identifier space differs from the native one,
\* the fragment of getMetricCTE and of getExperimentCTE joins the
\* identifies table on its column of the native space being equal to the
\* primary table's column of the native space, and selects as user_id the
\* identifies table's column of the requested space.
C22_BridgeSelectsRequestedSpace ==
    (op \in {"getMetricCTE", "getExperimentCTE"} /\ pc = "returned") =>
        LET fragment == result.value
            native == IF op = "getMetricCTE" THEN params.metric.userIdType
                      ELSE Get(params.experiment, "userIdType")
            metric == IF op = "getMetricCTE" THEN params.metric ELSE NoMetric
            section == IF op = "getMetricCTE" THEN "default" ELSE "experiments"
        IN  SpacesDiffer(params.userId, native) =>
                /\ Len(fragment.join) = 1
                /\ Len(fragment.join[1].on) = 1
                /\ fragment.join[1].on[1].left
                     = Col("i", SpaceColumn(native, NoMetric, "identifies"))
                /\ fragment.join[1].on[1].operator = "="
                /\ fragment.join[1].on[1].right.name
                     = SpaceColumn(native, metric, section)
                /\ Selected(fragment, "user_id")
                     = Col("i", SpaceColumn(Requested(params.userId), NoMetric,
                                            "identifies"))

\* C23: getSegmentCTE and getDimensionCTE wrap the caller's query in the
\* identifies bridge exactly when the requested identifier space differs
\* from the space the segment or dimension is in, and pass it through as
\* it stands exactly when the two match.
C23_FragmentBridgedIffSpacesDiffer ==
    (op \in {"getSegmentCTE", "getDimensionCTE"} /\ pc = "returned") =>
        LET differ == SpacesDiffer(params.userId, params.fragment.userIdType)
            bridged == /\ "join" \in DOMAIN result.value
                       /\ Len(result.value.join) = 1
                       /\ result.value.join[1].table = IdentifiesTable
                       /\ result.value.from.subquery = params.fragment.sql
            unwrapped == /\ "join" \notin DOMAIN result.value
                         /\ result.value.subquery = params.fragment.sql
        IN  /\ bridged <=> differ
            /\ unwrapped <=> ~differ

(***************************************************************************)
(* Properties of the conversion window.                                    *)
(***************************************************************************)
\* The window of a subject: from its first entrance, or a half hour
\* before it for a metric with earlyStart, to the end of the conversion
\* window counted from the first entrance.
WindowStart(s) == IF CallMetric.earlyStart THEN s.start - 1 ELSE s.start
ConversionEnd(s) == s.start + conversionWindowDays * HalfHoursPerDay

InWindow(e, s) == e.user = s.user /\ WindowStart(s) <= e.at /\ e.at <= ConversionEnd(s)

\* What the metric makes of a set of events, before any cap.
AggregateOf(events) ==
    CASE CallMetric.type = "count" ->
             IF CallMetric.column # <<>> THEN Cardinality({ e.amount : e \in events })
             ELSE Cardinality(events)
      [] CallMetric.type \in {"duration", "revenue"} ->
             Greatest({ e.amount : e \in events })
      [] OTHER -> 1

\* C24: in __userMetric of both queries a user has a row exactly when one
\* of the user's events lies in the closed interval from window_start to
\* conversion_end, and the value of the row (of a metric without cap) is
\* the aggregate of the events in that interval and of no other.
C24_EventsCountWithinClosedWindow ==
    Measured =>
        \A s \in Subjects :
            LET inside == { e \in Stored("events") : InWindow(e, s) }
                rows == { r \in UserMetricRows : r.rowid = SubjectKey(s) }
            IN  /\ (rows # {}) <=> (inside # {})
                /\ Cardinality(rows) <= 1
                /\ CallMetric.cap = 0 =>
                      \A r \in rows : r.value = Num(AggregateOf(inside))

\* An event at the very start or the very end of a user's window, and one
\* of the same user just outside it.
C24_Witness ==
    /\ Measured
    /\ CallMetric.cap = 0
    /\ CallMetric.type = "count"
    /\ \E s \in Subjects :
          /\ \E e \in Stored("events") :
                InWindow(e, s) /\ e.at \in {WindowStart(s), ConversionEnd(s)}
          /\ \E e \in Stored("events") :
                /\ e.user = s.user
                /\ e.at \in {WindowStart(s) - 1, ConversionEnd(s) + 1}
          /\ \E r \in UserMetricRows : r.rowid = SubjectKey(s) /\ r.value = Num(1)

(***************************************************************************)
(* Properties of the activation metric.                                    *)
(***************************************************************************)
ActivatedRun ==
    /\ op \in {"getExperimentUsersSql", "getExperimentMetricSql"}
    /\ pc = "executed"
    /\ Activated

DistinctUsersRows == delivered[2]["__distinctUsers"]

\* C25: with an activation metric, __distinctUsers of the users query and
\* of the metric query holds a user of a variation exactly when the user
\* has an activation event between an exposure to it and the end of that
\* exposure's conversion window, and the users query counts those users;
\* in the metric query the row's actual_start, session_start and
\* conversion_end are those of the activation event (the first such), and
\* the metric's events count from there.
C25_ActivationFiltersAndReanchors ==
    ActivatedRun =>
        /\ { r.rowid : r \in DistinctUsersRows } = { SubjectKey(s) : s \in Subjects }
        /\ op = "getExperimentUsersSql" =>
              /\ { r.variation : r \in delivered[1] }
                   = { SqlText(s.variation) : s \in Subjects }
              /\ \A r \in delivered[1] :
                    r.users = Num(Cardinality({ s \in Subjects :
                                                  SqlText(s.variation) = r.variation }))
        /\ op = "getExperimentMetricSql" =>
              /\ \A s \in Subjects : \A r \in DistinctUsersRows :
                    r.rowid = SubjectKey(s) =>
                        /\ r.actual_start = Num(s.start)
                        /\ r.session_start = Num(s.start - 1)
                        /\ r.conversion_end = Num(ConversionEnd(s))
              /\ { r.rowid : r \in UserMetricRows } = { SubjectKey(s) : s \in Converted }
              /\ \A s \in Converted : \A r \in UserMetricRows :
                    r.rowid = SubjectKey(s) =>
                        r.value = Num(Cardinality(QualifyingEvents(s)))

\* A user exposed and activated later within the window, and another
\* exposed whose only activation event lies outside it.
C25_Witness ==
    /\ ActivatedRun
    /\ \E s \in Subjects : \E x \in Stored("experiments") :
          x.user = s.user /\ x.variation = s.variation /\ x.at < s.start
    /\ \E x \in Stored("experiments") :
          /\ \E a \in Stored("activations") : a.user = x.user
          /\ \A s \in Subjects : s.user # x.user

(***************************************************************************)
(* Properties of the days the past-experiment query keeps.                 *)
(***************************************************************************)
SeriesRun ==
    /\ op = "getPastExperimentQuery"
    /\ pc = "executed"
    /\ "series" \in DOMAIN params

PeakOf(series) == Greatest({ series[i] : i \in DOMAIN series })

\* The days that are neither at or below the floor of 5 users nor below
\* 5% of the peak.
KeptDays(series) ==
    { i \in DOMAIN series : series[i] > 5 /\ series[i] * 20 >= PeakOf(series) }

RECURSIVE UsersOn(_, _)
UsersOn(series, days) ==
    IF days = {} THEN 0
    ELSE LET i == CHOOSE j \in days : TRUE
         IN  series[i] + UsersOn(series, days \ {i})

\* C26: the row of a variation in __variations starts and ends on days
\* that have more than 5 users and at least 5% of the peak, and counts the
\* users of such days alone, whatever the series of daily counts.
C26_LowDaysNeverContribute ==
    SeriesRun =>
        \A r \in delivered[2]["__variations"] :
            \E K \in (SUBSET KeptDays(params.series)) \ {{}} :
                /\ r.start_date
                     = Num(DayStart(params.firstDay - 1 + Earliest(K)))
                /\ r.end_date
                     = Num(DayStart(params.firstDay - 1 + Greatest(K)))
                /\ r.users = Num(UsersOn(params.series, K))

(***************************************************************************)
(* Properties of the split by a dimension.                                 *)
(***************************************************************************)
UsersRun ==
    /\ op = "getExperimentUsersSql"
    /\ pc = "executed"
    /\ ~Activated

\* The users exposed to a variation.
ExposedTo(v) == { x.user : x \in { y \in Stored("experiments") : y.variation = v } }

\* C28: the users the users query counts for a variation, added up over
\* its dimension values, are the users exposed to that variation, with a
\* dimension as without one.
C28_DimensionKeepsPopulation ==
    UsersRun =>
        \A v \in { x.variation : x \in Stored("experiments") } :
            SumOf({ <<r.rowid, r.users>> :
                      r \in { q \in delivered[1] : q.variation = SqlText(v) } })
                = Num(Cardinality(ExposedTo(v)))

(***************************************************************************)
(* Properties of the buckets getExperimentResults keeps.                   *)
(***************************************************************************)
\* The array indices of an experiment's variations, as property keys.
VariationIndices == { ToPropertyKey(Num(i - 1)) : i \in 1..Len(variations) }

\* C29: whatever rows were merged, every bucket is a variation-indexed
\* array: its entries stand under the indices 0..variationCount-1 only, the
\* entry at index i has variation = i, no (dimension value, index) pair has
\* two entries, and every dimension value has exactly one bucket, in the Map
\* and in the returned list.
C29_BucketsAreVariationIndexed ==
    InExperimentResults =>
        /\ \A e \in Entries :
             /\ e[2] \in VariationIndices
             /\ IsNum(EntryAt(e).variation)
             /\ ~OutOfRange(EntryAt(e).variation)
             /\ e[2] = ToPropertyKey(EntryAt(e).variation)
        /\ \A e, f \in Entries :
             (KeyAt(e) = KeyAt(f) /\ EntryAt(e).variation = EntryAt(f).variation)
                => e = f
        /\ \A i, j \in 1..Len(dimensionMap) :
             dimensionMap[i].dimension = dimensionMap[j].dimension => i = j
        /\ pc = "returned" =>
             LET list == result.value.results
             IN  /\ \A i, j \in 1..Len(list) :
                      list[i].dimension = list[j].dimension => i = j
                 /\ \A i \in 1..Len(dimensionMap) :
                      \E j \in 1..Len(list) : list[j] = dimensionMap[i]
                 /\ Len(list) = Len(dimensionMap)

(***************************************************************************)
(* Properties of the aliases of a fragment.                                *)
(***************************************************************************)
\* The pieces of a column expression that open with a period: the piece
\* before one of them is the alias the column is read from, unless it is
\* a marker of the caller's column text left as it stands.
QualifiedTails == {".", ".ended - ", ".started"}

RECURSIVE AliasesOf(_)
\* The aliases an expression qualifies its columns with.
AliasesOf(expr) ==
    CASE expr.kind = "column" -> IF expr.alias = "" THEN {} ELSE {expr.alias}
      [] expr.kind = "call" ->
             UNION { AliasesOf(expr.args[i]) : i \in 1..Len(expr.args) }
      [] expr.kind = "interval" -> AliasesOf(expr.arg)
      [] expr.kind = "pieces" ->
             { expr.tokens[i] : i \in { j \in 1..(Len(expr.tokens) - 1) :
                                          expr.tokens[j + 1] \in QualifiedTails } }
                 \ {AliasMarker}
      [] OTHER -> {}

\* The aliases the conjuncts of an ON or a WHERE clause use.
ConditionAliases(conditions) ==
    UNION { AliasesOf(conditions[i].left) \cup AliasesOf(conditions[i].right) :
              i \in 1..Len(conditions) }

\* The aliases a fragment uses in its select list, its joins' ON clauses
\* and its WHERE clause.
UsedAliases(fragment) ==
    UNION { AliasesOf(fragment.select[i].expr) : i \in 1..Len(fragment.select) }
    \cup UNION { ConditionAliases(fragment.join[i].on) : i \in 1..Len(fragment.join) }
    \cup ConditionAliases(Opt(fragment, "where"))

\* The aliases a fragment gives to the tables of its FROM clause.
DefinedAliases(fragment) ==
    {fragment.from.alias} \cup { fragment.join[i].alias : i \in 1..Len(fragment.join) }

\* C30: in every fragment getMetricCTE, getExperimentCTE, getSegmentCTE and
\* getDimensionCTE compose, every alias that qualifies a column in the
\* select list, in the ON clause of the identifies join or in the WHERE
\* clause is an alias the fragment's FROM clause defines.
C30_AliasesAreDefined ==
    (/\ op \in {"getMetricCTE", "getExperimentCTE", "getSegmentCTE", "getDimensionCTE"}
     /\ pc = "returned"
     /\ "from" \in DOMAIN result.value)
        => UsedAliases(result.value) \subseteq DefinedAliases(result.value)

=============================================================================
